---------------------------- MODULE Spec2Model ----------------------------
(***************************************************************************)
(* Model of the layer compositing pipeline of three-layered-material:      *)
(* LayeredMaterial (layer list, rebuild on every edit), MaterialSampler,   *)
(* MaskGenerator, LayerBlender and the colour / normal / scalar blenders.  *)
(*                                                                         *)
(* The program builds a shader graph; the model evaluates that graph at    *)
(* one surface point (the variable pt), so a Node is the value the node    *)
(* takes there.  Shader floats are rationals [n, d] in lowest terms, exact *)
(* up to a denominator of 1000 and cut to thousandths beyond; d = 0        *)
(* encodes the non-finite floats (1/0 = +Inf, -1/0 = -Inf, 0/0 = NaN).     *)
(*                                                                         *)
(* Notation: CHOOSE r \in {e(x) : x \in {a}} : TRUE is "let x be the value *)
(* of a in e(x)": a is evaluated once, however often e uses x.             *)
(***************************************************************************)
EXTENDS Integers, Sequences, FiniteSets, TLC

(***************************************************************************)
(* Shader floats                                                           *)
(***************************************************************************)
Abs(i) == IF i < 0 THEN -i ELSE i

Sign(i) == IF i < 0 THEN -1 ELSE IF i > 0 THEN 1 ELSE 0

RECURSIVE GCD(_, _)
GCD(a, b) ==
  CHOOSE r \in {IF y = 0 THEN x ELSE GCD(y, x % y) : x \in {a}, y \in {b}} :
    TRUE

LCM(a, b) == (a \div GCD(a, b)) * b

\* the float n/d in lowest terms, d >= 0
R(n, d) ==
  CHOOSE r \in
    {IF y = 0 THEN [n |-> Sign(x), d |-> 0]
     ELSE [n |-> Sign(y) * (x \div g), d |-> Abs(y) \div g] :
       x \in {n}, y \in {d}, g \in {GCD(Abs(n), Abs(d))}} : TRUE

float(i) == [n |-> i, d |-> 1]

NaN == [n |-> 0, d |-> 0]

IsFinite(a) == a.d # 0

IsNaN(a) == a = NaN

\* a finite float keeps a bounded number of digits: a result whose lowest
\* terms need a denominator above 1000 is cut to thousandths (toward zero)
thousandths(m, d) ==
  (m \div d) * 1000 +
  (IF d <= 2000000 THEN ((m % d) * 1000) \div d
   ELSE IF (m % d) \div (d \div 1000) > 999 THEN 999
   ELSE (m % d) \div (d \div 1000))

fround(a) ==
  CHOOSE r \in
    {IF x.d <= 1000 THEN x
     ELSE R(Sign(x.n) * thousandths(Abs(x.n), x.d), 1000) : x \in {a}} : TRUE

\* the sum of two finite floats, over the least common denominator l
addFinite(x, y, l) ==
  CHOOSE r \in
    {fround(R(x.n * (m \div x.d) + y.n * (m \div y.d), m)) : m \in {l}} :
    TRUE

add(a, b) ==
  CHOOSE r \in
    {IF x.d = 0 /\ y.d = 0 THEN (IF x.n = y.n THEN x ELSE NaN)
     ELSE IF x.d = 0 THEN x
     ELSE IF y.d = 0 THEN y
     ELSE addFinite(x, y, LCM(x.d, y.d)) : x \in {a}, y \in {b}} : TRUE

neg(a) == CHOOSE r \in {[n |-> -x.n, d |-> x.d] : x \in {a}} : TRUE

sub(a, b) == add(a, neg(b))

\* the product of two finite floats, cancelling g = gcd(x.n, y.d) and
\* h = gcd(y.n, x.d) before multiplying
mulFinite(x, y, g, h) ==
  CHOOSE r \in
    {fround(R((x.n \div p) * (y.n \div q), (x.d \div q) * (y.d \div p))) :
       p \in {g}, q \in {h}} : TRUE

mul(a, b) ==
  CHOOSE r \in
    {IF x.d = 0 \/ y.d = 0 THEN R(Sign(x.n) * Sign(y.n), 0)
     ELSE mulFinite(x, y, GCD(Abs(x.n), y.d), GCD(Abs(y.n), x.d)) :
       x \in {a}, y \in {b}} : TRUE

\* 1 / a; 1/0 = +Inf, 1/Inf = 0, 1/NaN = NaN
inv(a) ==
  CHOOSE r \in
    {IF x = NaN THEN NaN
     ELSE IF x.n < 0 THEN [n |-> -x.d, d |-> -x.n]
     ELSE [n |-> x.d, d |-> x.n] : x \in {a}} : TRUE

div(a, b) == mul(a, inv(b))

\* a < b; false whenever one side is NaN, as for floats
lessThan(a, b) ==
  CHOOSE r \in
    {IF x = NaN \/ y = NaN THEN FALSE
     ELSE IF x.d = 0 /\ y.d = 0 THEN x.n < y.n
     ELSE x.n * y.d < y.n * x.d : x \in {a}, y \in {b}} : TRUE

lessEq(a, b) ==
  CHOOSE r \in {x = y \/ lessThan(x, y) : x \in {a}, y \in {b}} : TRUE

\* GLSL/WGSL: min(x, y) is y if y < x, otherwise x; max(x, y) is y if x < y
min(a, b) ==
  CHOOSE r \in {IF lessThan(y, x) THEN y ELSE x : x \in {a}, y \in {b}} : TRUE

max(a, b) ==
  CHOOSE r \in {IF lessThan(x, y) THEN y ELSE x : x \in {a}, y \in {b}} : TRUE

clamp(x, lo, hi) == min(max(x, lo), hi)

oneMinus(a) == sub(float(1), a)

InUnit(a) ==
  CHOOSE r \in
    {x.d # 0 /\ 0 <= x.n /\ x.n <= x.d : x \in {a}} : TRUE

\* floor of the square root of x >= 0, by bisection on lo <= root < hi
RECURSIVE ISqrtIn(_, _, _)
ISqrtIn(x, lo, hi) ==
  CHOOSE r \in
    {IF h - l <= 1 THEN l
     ELSE IF mid * mid <= x THEN ISqrtIn(x, mid, h) ELSE ISqrtIn(x, l, mid) :
       l \in {lo}, h \in {hi}, mid \in {(lo + hi) \div 2}} : TRUE

ISqrt(x) == ISqrtIn(x, 0, 46341)

IsSquare(x) == CHOOSE r \in {s * s = x : s \in {ISqrt(x)}} : TRUE

\* sqrt: exact on squares of rationals, otherwise rounded down to 1/100;
\* sqrt of a negative number is NaN
sqrt(a) ==
  CHOOSE r \in
    {IF x.d = 0 THEN (IF x.n > 0 THEN x ELSE NaN)
     ELSE IF x.n < 0 THEN NaN
     ELSE IF IsSquare(x.n) /\ IsSquare(x.d) THEN R(ISqrt(x.n), ISqrt(x.d))
     ELSE R(ISqrt(((x.n * 100) \div x.d) * 100), 100) : x \in {a}} : TRUE

saturate(x) == clamp(x, float(0), float(1))

\* mix(x, y, a) = x * (1 - a) + y * a
mix(x, y, a) ==
  CHOOSE r \in
    {add(mul(u, oneMinus(t)), mul(v, t)) : u \in {x}, v \in {y}, t \in {a}} :
    TRUE

\* a comparison used as a mix factor: true is 1.0, false is 0.0
boolNode(b) == IF b THEN float(1) ELSE float(0)

\* t * t * (3 - 2 t) at t = clamp((x - e0) / (e1 - e0), 0, 1)
smoothstep(e0, e1, x) ==
  CHOOSE r \in
    {mul(mul(t, t), sub(float(3), mul(float(2), t))) :
       t \in {clamp(div(sub(x, e0), sub(e1, e0)), float(0), float(1))}} : TRUE

(***************************************************************************)
(* vec3 nodes: triples of floats                                           *)
(***************************************************************************)
vec3(x, y, z) == <<x, y, z>>

vadd(a, b) ==
  CHOOSE r \in
    {<<add(u[1], v[1]), add(u[2], v[2]), add(u[3], v[3])>> :
       u \in {a}, v \in {b}} : TRUE

vsub(a, b) ==
  CHOOSE r \in
    {<<sub(u[1], v[1]), sub(u[2], v[2]), sub(u[3], v[3])>> :
       u \in {a}, v \in {b}} : TRUE

vmul(a, b) ==
  CHOOSE r \in
    {<<mul(u[1], v[1]), mul(u[2], v[2]), mul(u[3], v[3])>> :
       u \in {a}, v \in {b}} : TRUE

vscale(a, k) ==
  CHOOSE r \in
    {<<mul(u[1], s), mul(u[2], s), mul(u[3], s)>> : u \in {a}, s \in {k}} :
    TRUE

vmix(a, b, t) ==
  CHOOSE r \in
    {<<mix(u[1], v[1], s), mix(u[2], v[2], s), mix(u[3], v[3], s)>> :
       u \in {a}, v \in {b}, s \in {t}} : TRUE

dot(a, b) ==
  CHOOSE r \in
    {add(add(mul(u[1], v[1]), mul(u[2], v[2])), mul(u[3], v[3])) :
       u \in {a}, v \in {b}} : TRUE

VFinite(a) == a[1].d # 0 /\ a[2].d # 0 /\ a[3].d # 0

ZeroVec == <<float(0), float(0), float(0)>>

NaNVec == <<NaN, NaN, NaN>>

max3(a, b, c) ==
  IF a > b THEN (IF a > c THEN a ELSE c) ELSE (IF b > c THEN b ELSE c)

\* the integer vector p divided by its components' gcd or, if that leaves a
\* component above 1000 in magnitude, scaled down below 1000
shorten(p) ==
  CHOOSE r \in
    {IF m <= 1000 * g THEN [i \in 1..3 |-> p[i] \div g]
     ELSE [i \in 1..3 |-> Sign(p[i]) * (Abs(p[i]) \div ((m \div 1000) + 1))] :
       g \in {GCD(GCD(Abs(p[1]), Abs(p[2])), Abs(p[3]))},
       m \in {max3(Abs(p[1]), Abs(p[2]), Abs(p[3]))}} : TRUE

\* a finite non-zero v rescaled by a positive factor to integer components
\* (normalize(k * v) = normalize(v) for k > 0)
intDirection(a) ==
  CHOOSE r \in
    {shorten([i \in 1..3 |-> a[i].n * (l \div a[i].d)]) :
       l \in {LCM(LCM(a[1].d, a[2].d), a[3].d)}} : TRUE

\* w / length(w) for an integer vector w: exact when the length is an
\* integer, otherwise each component rounded to 1/100
unitOf(w) ==
  CHOOSE r \in
    {IF len * len = lenSq THEN [i \in 1..3 |-> R(w[i], len)]
     ELSE [i \in 1..3 |->
             R(Sign(w[i]) * ((Abs(w[i]) * 1000) \div len10), 100)] :
       lenSq \in {w[1] * w[1] + w[2] * w[2] + w[3] * w[3]},
       len \in {ISqrt(w[1] * w[1] + w[2] * w[2] + w[3] * w[3])},
       len10 \in {ISqrt((w[1] * w[1] + w[2] * w[2] + w[3] * w[3]) * 100)}} :
    TRUE

\* v / length(v); the zero vector gives 0/0 = NaN in every component
normalize(a) ==
  CHOOSE r \in
    {IF ~VFinite(u) \/ u = ZeroVec THEN NaNVec
     ELSE CHOOSE q \in {unitOf(w) : w \in {intDirection(u)}} : TRUE :
       u \in {a}} : TRUE

\* normalize(0) is undefined in the shading language: a build may return
\* NaN or leave the zero vector
normalizeOutcomes(a) ==
  CHOOSE r \in
    {IF u = ZeroVec THEN {NaNVec, ZeroVec} ELSE {normalize(u)} : u \in {a}} :
    TRUE

(***************************************************************************)
(* ScalarBlender                                                           *)
(***************************************************************************)
ScalarBlendModes ==
  {"normal", "min", "max", "multiply", "average", "overlay", "add", "subtract"}

\* mix(screen, multiply, base < 0.5)
ScalarBlender_overlay(base, top) ==
  LET multiply == mul(mul(base, top), float(2))
      screen == oneMinus(mul(mul(oneMinus(base), oneMinus(top)), float(2)))
      condition == lessThan(base, R(1, 2))
  IN  mix(screen, multiply, boolNode(condition))

\* the combined value with min and max exchanged
C7_blendedMinMaxSwapped(baseValue, topValue, mode) ==
  CASE mode = "min" -> max(baseValue, topValue)
    [] mode = "max" -> min(baseValue, topValue)
    [] mode = "multiply" -> mul(baseValue, topValue)
    [] mode = "average" -> mul(add(baseValue, topValue), R(1, 2))
    [] mode = "overlay" -> ScalarBlender_overlay(baseValue, topValue)
    [] mode = "add" -> add(baseValue, topValue)
    [] mode = "subtract" -> sub(baseValue, topValue)
    [] OTHER -> topValue

ScalarBlender_blended(baseValue, topValue, mode) ==
  CASE mode = "min" -> min(baseValue, topValue)
    [] mode = "max" -> max(baseValue, topValue)
    [] mode = "multiply" -> mul(baseValue, topValue)
    [] mode = "average" -> mul(add(baseValue, topValue), R(1, 2))
    [] mode = "overlay" -> ScalarBlender_overlay(baseValue, topValue)
    [] mode = "add" -> add(baseValue, topValue)
    [] mode = "subtract" -> sub(baseValue, topValue)
    [] OTHER -> topValue

ScalarBlender_blend(baseValue, topValue, blendFactor, mode) ==
  CHOOSE r \in
    {IF mode \in ScalarBlendModes \ {"normal"}
     THEN saturate(mix(base, ScalarBlender_blended(base, top, mode), f))
     ELSE mix(base, top, f) :
       base \in {baseValue}, top \in {topValue}, f \in {blendFactor}} : TRUE

(***************************************************************************)
(* ColorBlender: every mode works per component                            *)
(***************************************************************************)
ColorBlendModes ==
  {"normal", "multiply", "overlay", "screen", "add", "subtract", "divide",
   "darken", "lighten", "color-burn", "color-dodge", "soft-light",
   "hard-light"}

ColorBlender_screen(base, top) ==
  oneMinus(mul(oneMinus(base), oneMinus(top)))

ColorBlender_overlay(base, top) ==
  LET multiply == mul(mul(base, top), float(2))
      screen == oneMinus(mul(mul(oneMinus(base), oneMinus(top)), float(2)))
      condition == lessThan(base, R(1, 2))
  IN  mix(screen, multiply, boolNode(condition))

ColorBlender_divide(base, top) ==
  LET safeTop == max(top, R(1, 1000))
  IN  saturate(div(base, safeTop))

ColorBlender_colorBurn(base, top) ==
  LET safeTop == max(top, R(1, 1000))
  IN  saturate(oneMinus(div(oneMinus(base), safeTop)))

ColorBlender_colorDodge(base, top) ==
  LET denominator == max(oneMinus(top), R(1, 1000))
  IN  saturate(div(base, denominator))

ColorBlender_softLight(base, top) ==
  LET multiply == sub(base, mul(mul(oneMinus(mul(top, float(2))), base),
                                oneMinus(base)))
      screen == add(base, mul(sub(mul(top, float(2)), float(1)),
                              sub(sqrt(base), base)))
      condition == lessThan(top, R(1, 2))
  IN  mix(screen, multiply, boolNode(condition))

ColorBlender_hardLight(base, top) ==
  LET multiply == mul(mul(base, top), float(2))
      screen == oneMinus(mul(mul(oneMinus(base), oneMinus(top)), float(2)))
      condition == lessThan(top, R(1, 2))
  IN  mix(screen, multiply, boolNode(condition))

ColorBlender_blended(base, top, mode) ==
  CASE mode = "multiply" -> mul(base, top)
    [] mode = "overlay" -> ColorBlender_overlay(base, top)
    [] mode = "screen" -> ColorBlender_screen(base, top)
    [] mode = "add" -> saturate(add(base, top))
    [] mode = "subtract" -> saturate(sub(base, top))
    [] mode = "divide" -> ColorBlender_divide(base, top)
    [] mode = "darken" -> min(base, top)
    [] mode = "lighten" -> max(base, top)
    [] mode = "color-burn" -> ColorBlender_colorBurn(base, top)
    [] mode = "color-dodge" -> ColorBlender_colorDodge(base, top)
    [] mode = "soft-light" -> ColorBlender_softLight(base, top)
    [] mode = "hard-light" -> ColorBlender_hardLight(base, top)
    [] OTHER -> top

\* one component of ColorBlender.blend
ColorBlender_blend1(base, top, blendFactor, mode) ==
  IF mode \in ColorBlendModes \ {"normal"}
  THEN mix(base, ColorBlender_blended(base, top, mode), blendFactor)
  ELSE mix(base, top, blendFactor)

ColorBlender_blend(baseColor, topColor, blendFactor, mode) ==
  CHOOSE r \in
    {[i \in 1..3 |-> ColorBlender_blend1(base[i], top[i], f, mode)] :
       base \in {baseColor}, top \in {topColor}, f \in {blendFactor}} : TRUE

(***************************************************************************)
(* NormalBlender.  dN = <<detail1, detail2>> are the magnitudes            *)
(* length(dFdx(n) + dFdy(n)) of the two inputs' screen-space derivatives,  *)
(* which the surface point supplies.                                       *)
(***************************************************************************)
NormalBlendModes ==
  {"rnb", "linear", "whiteout", "udn", "partial_derivative", "overlay"}

linearBlend(n1, n2, blend) == vmix(n1, n2, blend)

\* t = n1 + (0, 0, 1), u = n2 * (-1, -1, 1), r = t * (dot(t, u) / t.z) - u
reorientedBlend(n1, n2, blend) ==
  CHOOSE r \in
    {vmix(n1, vsub(vscale(t, div(dot(t, u), t[3])), u), blend) :
       t \in {vadd(n1, vec3(float(0), float(0), float(1)))},
       u \in {vmul(n2, vec3(float(-1), float(-1), float(1)))}} : TRUE

whiteoutBlend(n1, n2, blend) ==
  LET blended == vsub(vadd(n1, n2), vec3(float(0), float(0), float(1)))
  IN  vmix(n1, blended, blend)

reconstructZ(x, y) ==
  LET xyDot == add(mul(x, x), mul(y, y))
  IN  sqrt(max(oneMinus(xyDot), float(0)))

udnBlend(n1, n2, blend) ==
  CHOOSE r \in
    {vec3(x, y, reconstructZ(x, y)) :
       x \in {mix(n1[1], n2[1], blend)},
       y \in {mix(n1[2], n2[2], blend)}} : TRUE

partialDerivativeBlend(n1, n2, blend, dN) ==
  LET detail1 == dN[1]
      detail2 == dN[2]
      totalDetail == add(add(detail1, detail2), R(1, 1000))
      weight == div(detail1, totalDetail)
      adjustedBlend == mul(blend, oneMinus(weight))
  IN  vmix(n1, n2, adjustedBlend)

overlayComponents(base, top) ==
  LET multiply == mul(mul(base, top), float(2))
      screen == oneMinus(mul(mul(oneMinus(base), oneMinus(top)), float(2)))
      condition == lessThan(base, R(1, 2))
  IN  mix(screen, multiply, boolNode(condition))

overlayBlend(n1, n2, blend) ==
  CHOOSE r \in
    {vec3(x, y, reconstructZ(x, y)) :
       x \in {mix(n1[1], overlayComponents(n1[1], n2[1]), blend)},
       y \in {mix(n1[2], overlayComponents(n1[2], n2[2]), blend)}} : TRUE

\* the vector that NormalBlender.blend hands to normalize()
NormalBlender_blended(normal1, normal2, blendFactor, mode, dN) ==
  CHOOSE r \in
    {CASE mode = "linear" -> linearBlend(n1, n2, f)
       [] mode = "whiteout" -> whiteoutBlend(n1, n2, f)
       [] mode = "udn" -> udnBlend(n1, n2, f)
       [] mode = "partial_derivative" -> partialDerivativeBlend(n1, n2, f, dN)
       [] mode = "overlay" -> overlayBlend(n1, n2, f)
       [] OTHER -> reorientedBlend(n1, n2, f) :
       n1 \in {normal1}, n2 \in {normal2}, f \in {blendFactor}} : TRUE

NormalBlender_blend(normal1, normal2, blendFactor, mode, dN) ==
  normalize(NormalBlender_blended(normal1, normal2, blendFactor, mode, dN))

(***************************************************************************)
(* Configuration values.  An optional property is a sequence of length 0   *)
(* (undefined) or 1.  A Texture is the samples it returns at the surface   *)
(* point for the planar uv and the three triplanar projections.            *)
(***************************************************************************)
None == <<>>

Some(x) == <<x>>

\* a ?? b
Nullish(opt, dflt) == IF opt = None THEN dflt ELSE opt[1]

\* a || b on numbers: undefined, 0 and NaN are falsy
OrDefault(opt, dflt) ==
  IF opt = None THEN dflt
  ELSE IF opt[1] = float(0) \/ opt[1] = NaN THEN dflt
  ELSE opt[1]

texture(map, coord) == map[coord]

xyz(s) == <<s[1], s[2], s[3]>>

channelIndex(channel) ==
  CASE channel \in {"r", "x"} -> 1
    [] channel \in {"g", "y"} -> 2
    [] channel \in {"b", "z"} -> 3
    [] OTHER -> 4

(***************************************************************************)
(* LayeredMaterial.getDefaultLayer: the returned object has no height      *)
(***************************************************************************)
getDefaultLayer ==
  [color |-> vec3(R(4, 5), R(4, 5), R(4, 5)),
   normal |-> vec3(float(0), float(0), float(1)),
   roughness |-> R(1, 2),
   metalness |-> float(0),
   ao |-> float(1),
   height |-> None]

(***************************************************************************)
(* EdgeWearCalculator.apply.  The wear mask is computed from screen-space  *)
(* derivatives and noise; the surface point supplies its value (pt.wear).  *)
(***************************************************************************)
EdgeWearCalculator_apply(data, config, pt) ==
  CHOOSE r \in
    {IF config.affectsMaterial
     THEN [d EXCEPT
             !.color = wornColor,
             !.roughness = mix(d.roughness,
                               OrDefault(config.roughness, R(3, 10)), mask),
             !.metalness = mix(d.metalness,
                               OrDefault(config.metalness, R(4, 5)), mask)]
     ELSE [d EXCEPT !.color = wornColor] :
       d \in {data},
       mask \in {pt.wear},
       wornColor \in
         {vmix(data.color,
               Nullish(config.color, vec3(R(7, 10), R(3, 5), R(1, 2))),
               pt.wear)}} : TRUE

edgeWearEnabled(layer) ==
  layer.edgeWear # None /\ layer.edgeWear[1].enable

\* if (layer.edgeWear?.enable) data = edgeWearCalculator.apply(data, ...)
withEdgeWear(data, layer, pt) ==
  IF edgeWearEnabled(layer)
  THEN EdgeWearCalculator_apply(data, layer.edgeWear[1], pt)
  ELSE data

\* if (layer.colorTint) color = color.mul(vec3(colorTint))
withColorTint(color, layer) ==
  IF layer.colorTint # None THEN vmul(color, layer.colorTint[1]) ELSE color

(***************************************************************************)
(* DefaultLayerFactory.create                                              *)
(***************************************************************************)
createColor(layer) ==
  IF layer.color # None THEN layer.color[1]
  ELSE IF layer.map # None /\ layer.map[1].color # None
          /\ ~layer.map[1].color[1].isTexture
       THEN layer.map[1].color[1].vec
  ELSE vec3(R(4, 5), R(4, 5), R(4, 5))

DefaultLayerFactory_create(layer, pt) ==
  withEdgeWear([color |-> withColorTint(createColor(layer), layer),
                normal |-> vec3(float(0), float(0), float(1)),
                roughness |-> Nullish(layer.roughness, R(1, 2)),
                metalness |-> Nullish(layer.metalness, float(0)),
                ao |-> float(1),
                height |-> Some(R(1, 2))],
               layer, pt)

(***************************************************************************)
(* TextureSampler.sample (planar sampling, at the uv coordinate)           *)
(***************************************************************************)
sampleColor(colorInput, coord) ==
  IF colorInput = None THEN vec3(float(1), float(1), float(1))
  ELSE IF colorInput[1].isTexture THEN xyz(texture(colorInput[1].tex, coord))
  ELSE colorInput[1].vec

\* normalSample * 2 - 1
unpackNormal(normalSample) ==
  vsub(vscale(normalSample, float(2)), vec3(float(1), float(1), float(1)))

sampleNormal(normalMap, coord) ==
  IF normalMap = None THEN vec3(float(0), float(0), float(1))
  ELSE unpackNormal(xyz(texture(normalMap[1], coord)))

sampleHeight(layer, coord) ==
  IF layer.map = None \/ layer.map[1].height = None THEN R(1, 2)
  ELSE texture(layer.map[1].height[1], coord)[1]

sampleScalarMap(map, coord, fallback) ==
  IF map = None THEN fallback ELSE texture(map[1], coord)[1]

\* an ARM texture (ao, roughness, metalness in r, g, b) takes priority over
\* the individual maps
samplePBRProperties(layer, coord) ==
  IF layer.map[1].arm # None
  THEN CHOOSE r \in
         {[ao |-> armSample[1],
           roughness |-> armSample[2],
           metalness |-> armSample[3]] :
            armSample \in {texture(layer.map[1].arm[1], coord)}} : TRUE
  ELSE [ao |-> sampleScalarMap(layer.map[1].ao, coord, float(1)),
        roughness |-> sampleScalarMap(layer.map[1].roughness, coord,
                                      Nullish(layer.roughness, R(1, 2))),
        metalness |-> sampleScalarMap(layer.map[1].metalness, coord,
                                      Nullish(layer.metalness, float(0)))]

\* precondition (checked by the caller): layer.map is defined
TextureSampler_sample(layer, pt) ==
  CHOOSE r \in
    {withEdgeWear(
       [color |-> withColorTint(sampleColor(layer.map[1].color, "uv"), layer),
        normal |-> sampleNormal(layer.map[1].normal, "uv"),
        roughness |-> pbr.roughness,
        metalness |-> pbr.metalness,
        ao |-> pbr.ao,
        height |-> Some(sampleHeight(layer, "uv"))],
       layer, pt) : pbr \in {samplePBRProperties(layer, "uv")}} : TRUE

(***************************************************************************)
(* TriplanarSampler.sample                                                 *)
(***************************************************************************)
vabs(a) ==
  <<R(Abs(a[1].n), a[1].d), R(Abs(a[2].n), a[2].d), R(Abs(a[3].n), a[3].d)>>

\* abs(normal).normalize() divided by the sum of its components + 1e-6
calculateBlendWeights(normal) ==
  CHOOSE r \in
    {CHOOSE q \in
       {<<div(nAbs[1], sum), div(nAbs[2], sum), div(nAbs[3], sum)>> :
          sum \in {add(add(add(nAbs[1], nAbs[2]), nAbs[3]), R(1, 1000000))}} :
       TRUE : nAbs \in {normalize(vabs(normal))}} : TRUE

\* sX * blend.x + sY * blend.y + sZ * blend.z
triBlend(sX, sY, sZ, blend) ==
  vadd(vadd(vscale(sX, blend[1]), vscale(sY, blend[2])), vscale(sZ, blend[3]))

sampleTriplanarColor(colorInput, blend) ==
  IF colorInput = None THEN vec3(float(1), float(1), float(1))
  ELSE IF ~colorInput[1].isTexture THEN colorInput[1].vec
  ELSE triBlend(xyz(texture(colorInput[1].tex, "x")),
                xyz(texture(colorInput[1].tex, "y")),
                xyz(texture(colorInput[1].tex, "z")), blend)

sampleTriplanarNormal(normalMap, blend) ==
  IF normalMap = None THEN vec3(float(0), float(0), float(1))
  ELSE CHOOSE r \in
         {normalize(triBlend(vec3(sX[3], sX[1], sX[2]),
                             vec3(sY[1], sY[3], sY[2]),
                             vec3(sZ[1], sZ[2], sZ[3]), blend)) :
            sX \in {unpackNormal(xyz(texture(normalMap[1], "x")))},
            sY \in {unpackNormal(xyz(texture(normalMap[1], "y")))},
            sZ \in {unpackNormal(xyz(texture(normalMap[1], "z")))}} : TRUE

sampleTriplanarScalar(map, blend, fallback) ==
  IF map = None THEN fallback
  ELSE add(add(mul(texture(map[1], "x")[1], blend[1]),
               mul(texture(map[1], "y")[1], blend[2])),
           mul(texture(map[1], "z")[1], blend[3]))

mapField(layer, f) == IF layer.map = None THEN None ELSE layer.map[1][f]

sampleTriplanarPBR(layer, blend) ==
  IF mapField(layer, "arm") # None
  THEN CHOOSE r \in
         {[ao |-> arm[1], roughness |-> arm[2], metalness |-> arm[3]] :
            arm \in {triBlend(xyz(texture(layer.map[1].arm[1], "x")),
                              xyz(texture(layer.map[1].arm[1], "y")),
                              xyz(texture(layer.map[1].arm[1], "z")),
                              blend)}} : TRUE
  ELSE [roughness |-> sampleTriplanarScalar(mapField(layer, "roughness"),
                        blend, Nullish(layer.roughness, R(1, 2))),
        metalness |-> sampleTriplanarScalar(mapField(layer, "metalness"),
                        blend, Nullish(layer.metalness, float(0))),
        ao |-> sampleTriplanarScalar(mapField(layer, "ao"), blend, float(1))]

\* the sampled channels, given the projection weights
sampleWeighted(layer, blendWeights, pt) ==
  CHOOSE r \in
    {withEdgeWear(
       [color |-> sampleTriplanarColor(mapField(layer, "color"), blendWeights),
        normal |-> sampleTriplanarNormal(mapField(layer, "normal"),
                                         blendWeights),
        roughness |-> pbr.roughness,
        metalness |-> pbr.metalness,
        ao |-> pbr.ao,
        height |-> Some(sampleTriplanarScalar(mapField(layer, "height"),
                                              blendWeights, R(1, 2)))],
       layer, pt) : pbr \in {sampleTriplanarPBR(layer, blendWeights)}} : TRUE

\* precondition (checked by the caller): layer.triplanar.enable
TriplanarSampler_sample(layer, pt) ==
  CHOOSE r \in
    {sampleWeighted(layer, blendWeights, pt) :
       blendWeights \in
         {calculateBlendWeights(IF layer.triplanar[1].useWorldPosition
                                THEN pt.normalWorld ELSE pt.normalLocal)}} :
    TRUE

(***************************************************************************)
(* MaterialExtractor.extractFromMaterial                                   *)
(***************************************************************************)
extractRoughness(material) ==
  IF material.roughnessNode # None THEN material.roughnessNode[1]
  ELSE IF material.roughness # None THEN material.roughness[1]
  ELSE R(1, 2)

extractMetalness(material) ==
  IF material.metalnessNode # None THEN material.metalnessNode[1]
  ELSE IF material.metalness # None THEN material.metalness[1]
  ELSE float(0)

extractAO(material) ==
  IF material.aoNode # None THEN material.aoNode[1]
  ELSE IF material.aoMap # None THEN texture(material.aoMap[1], "uv")[1]
  ELSE float(1)

extractNodes(material) ==
  [color |-> Nullish(material.colorNode,
                     vec3(float(1), float(1), float(1))),
   normal |-> Nullish(material.normalNode,
                      vec3(float(0), float(0), float(1))),
   roughness |-> extractRoughness(material),
   metalness |-> extractMetalness(material),
   ao |-> extractAO(material),
   height |-> Some(R(1, 2))]

hasTextures(material) ==
  material.map # None \/ material.normalMap # None
    \/ material.roughnessMap # None \/ material.metalnessMap # None

asColorInput(tex) ==
  IF tex = None THEN None
  ELSE Some([isTexture |-> TRUE, tex |-> tex[1],
             vec |-> vec3(float(0), float(0), float(0))])

\* the layer config handed to the texture sampler: { ...layer, map: {...} }
textureLayer(layer, material) ==
  [layer EXCEPT
     !.map = Some([color |-> asColorInput(material.map),
                   normal |-> material.normalMap,
                   roughness |-> material.roughnessMap,
                   metalness |-> material.metalnessMap,
                   ao |-> material.aoMap,
                   height |-> material.displacementMap,
                   arm |-> None]),
     !.materialInput = None]

extractAndTransformTextures(layer, material, pt) ==
  CHOOSE r \in
    {TextureSampler_sample(tl, pt) : tl \in {textureLayer(layer, material)}} :
    TRUE

MaterialExtractor_extractFromMaterial(layer, pt) ==
  IF layer.extractTextures /\ hasTextures(layer.materialInput[1])
  THEN extractAndTransformTextures(layer, layer.materialInput[1], pt)
  ELSE withEdgeWear(extractNodes(layer.materialInput[1]), layer, pt)

(***************************************************************************)
(* MaterialSampler.sampleLayer                                             *)
(***************************************************************************)
triplanarEnabled(layer) ==
  layer.triplanar # None /\ layer.triplanar[1].enable

\* sampleLayer with the texture bundle tried before the extracted material
C5_sampleLayerMapFirst(layer, p) ==
  IF layer.map # None \/ triplanarEnabled(layer)
  THEN (IF triplanarEnabled(layer)
        THEN TriplanarSampler_sample(layer, p)
        ELSE TextureSampler_sample(layer, p))
  ELSE IF layer.materialInput # None
  THEN MaterialExtractor_extractFromMaterial(layer, p)
  ELSE DefaultLayerFactory_create(layer, p)

sampleLayer(layer, pt) ==
  IF layer.materialInput # None
  THEN MaterialExtractor_extractFromMaterial(layer, pt)
  ELSE IF layer.map # None \/ triplanarEnabled(layer)
  THEN (IF triplanarEnabled(layer)
        THEN TriplanarSampler_sample(layer, pt)
        ELSE TextureSampler_sample(layer, pt))
  ELSE DefaultLayerFactory_create(layer, pt)

(***************************************************************************)
(* NoiseGenerator.generate.  The hash-based octave sums are inputs of the  *)
(* model: pt.noise[type] is the raw value of that noise type at the point. *)
(***************************************************************************)
rawNoise(config, pt) ==
  IF config.noiseType = Some("voronoi") THEN pt.noise.voronoi
  ELSE IF config.noiseType = Some("fbm") THEN pt.noise.fbm
  ELSE pt.noise.perlin

NoiseGenerator_generate(config, pt) ==
  IF ~config.useNoise THEN float(1)
  ELSE IF config.noiseThreshold # None
  THEN smoothstep(sub(config.noiseThreshold[1], R(1, 10)),
                  add(config.noiseThreshold[1], R(1, 10)),
                  rawNoise(config, pt))
  ELSE rawNoise(config, pt)

(***************************************************************************)
(* MaskGenerator.generate: mask starts at 1 and each enabled source        *)
(* multiplies into it                                                      *)
(***************************************************************************)
up == vec3(float(0), float(1), float(0))

\* if (maskConfig.map) mask = texture(map, uv)[channel || 'r']
textureMask(m) ==
  IF m.map # None
  THEN texture(m.map[1], "uv")[channelIndex(Nullish(m.channel, "r"))]
  ELSE float(1)

\* if (maskConfig.useSlope) mask = mask.mul(smoothstep(min, max, slope))
slopeMask(mask, m, pt) ==
  IF m.useSlope
  THEN mul(mask, smoothstep(OrDefault(m.slopeMin, float(0)),
                            OrDefault(m.slopeMax, float(1)),
                            dot(pt.normalWorld, up)))
  ELSE mask

\* if (maskConfig.useHeight) mask = mask.mul(smoothstep(min, max, height))
heightMask(mask, m, pt) ==
  IF m.useHeight
  THEN mul(mask, smoothstep(OrDefault(m.heightMin, float(0)),
                            OrDefault(m.heightMax, float(10)),
                            pt.positionWorld[2]))
  ELSE mask

\* if (maskConfig.useNoise) mask = mask.mul(noiseGenerator.generate(...))
noiseMask(mask, m, pt) ==
  IF m.useNoise THEN mul(mask, NoiseGenerator_generate(m, pt)) ELSE mask

\* if (maskConfig.invert) mask = oneMinus(mask)
invertMask(mask, m) == IF m.invert THEN oneMinus(mask) ELSE mask

MaskGenerator_generate(layer, pt) ==
  IF layer.mask = None THEN float(1)
  ELSE saturate(
         invertMask(
           noiseMask(
             heightMask(
               slopeMask(textureMask(layer.mask[1]), layer.mask[1], pt),
               layer.mask[1], pt),
             layer.mask[1], pt),
           layer.mask[1]))

(***************************************************************************)
(* LayerBlender                                                            *)
(***************************************************************************)
\* "Height blend logic ... return mask; // Simplified"
calculateBlendFactor(baseLayer, topLayer, mask, config) == mask

\* config.blendMode?.[chan] || dflt
blendModeOf(config, chan, dflt) ==
  IF config.blendMode = None THEN dflt
  ELSE Nullish(config.blendMode[1][chan], dflt)

LayerBlender_blend(baseLayer, topLayer, mask, config, pt) ==
  CHOOSE r \in
    {[color |-> ColorBlender_blend(base.color, top.color, blendFactor,
                  blendModeOf(config, "color", "normal")),
      normal |-> NormalBlender_blend(base.normal, top.normal, blendFactor,
                  blendModeOf(config, "normal", "rnb"), pt.dN),
      roughness |-> ScalarBlender_blend(base.roughness, top.roughness,
                  blendFactor, blendModeOf(config, "roughness", "normal")),
      metalness |-> ScalarBlender_blend(base.metalness, top.metalness,
                  blendFactor, blendModeOf(config, "metalness", "normal")),
      ao |-> ScalarBlender_blend(base.ao, top.ao, blendFactor,
                  blendModeOf(config, "ao", "normal")),
      height |-> IF base.height # None
                 THEN Some(mix(base.height[1], top.height[1], blendFactor))
                 ELSE top.height] :
       base \in {baseLayer}, top \in {topLayer},
       blendFactor \in
         {calculateBlendFactor(baseLayer, topLayer, mask, config)}} : TRUE

(***************************************************************************)
(* LayeredMaterial.buildLayerBlending: the loop over layers[1..N-1]        *)
(* (TLA+ sequences start at 1: ls[i + 1] is the code's layers[i])          *)
(***************************************************************************)
\* the loop with the base layer masked and blended like every other layer:
\* it starts one layer early
RECURSIVE C1_blendLoopFromBase(_, _, _, _)
C1_blendLoopFromBase(ls, i, result, p) ==
  IF i <= Len(ls)
  THEN C1_blendLoopFromBase(ls, i + 1,
                            LayerBlender_blend(result, sampleLayer(ls[i], p),
                                               MaskGenerator_generate(ls[i], p),
                                               ls[i], p),
                            p)
  ELSE result

RECURSIVE blendLoop(_, _, _, _)
blendLoop(ls, i, result, p) ==
  IF i < Len(ls)
  THEN blendLoop(ls, i + 1,
                 LayerBlender_blend(result, sampleLayer(ls[i + 1], p),
                                    MaskGenerator_generate(ls[i + 1], p),
                                    ls[i + 1], p),
                 p)
  ELSE result

buildLayerBlending(ls, p) ==
  IF Len(ls) = 0 THEN getDefaultLayer
  ELSE blendLoop(ls, 1, sampleLayer(ls[1], p), p)

(***************************************************************************)
(* DecalLayeredMaterial: damage and decal masks, and the composite with    *)
(* damages and decals applied on top of the layer stack                    *)
(***************************************************************************)
fabs(a) == CHOOSE r \in {[n |-> Abs(x.n), d |-> x.d] : x \in {a}} : TRUE

length(v) == sqrt(dot(v, v))

\* x - floor(x), for a finite x
fract(a) == CHOOSE r \in {sub(x, float(x.n \div x.d)) : x \in {a}} : TRUE

\* pow(x, 1.5) and pow(x, 2) of a non-negative x
pow(a, e) ==
  CHOOSE r \in
    {IF e = R(3, 2) THEN mul(x, sqrt(x)) ELSE mul(x, x) : x \in {a}} : TRUE

\* the NoiseConfig literals of calculateDamageMask
damageNoise ==
  [useNoise |-> TRUE, noiseType |-> Some("fbm"), noiseThreshold |-> None]

crackNoiseConfig ==
  [useNoise |-> TRUE, noiseType |-> Some("voronoi"), noiseThreshold |-> None]

corrosionNoiseConfig ==
  [useNoise |-> TRUE, noiseType |-> Some("fbm"),
   noiseThreshold |-> Some(R(2, 5))]

\* lengthMask * widthMask, along and across the normalized direction dir2D
scratchAlongAcross(toScratch, dir2D) ==
  LET alongScratch == add(mul(toScratch[1], dir2D[1]),
                          mul(toScratch[3], dir2D[2]))
      acrossScratch == fabs(sub(mul(toScratch[1], dir2D[2]),
                                mul(toScratch[3], dir2D[1])))
      lengthMask == saturate(oneMinus(div(fabs(alongScratch), float(1))))
      widthMask == saturate(oneMinus(div(acrossScratch, R(1, 50))))
  IN  mul(lengthMask, widthMask)

calculateScratchMask(worldPos, scratchPos, direction) ==
  CHOOSE r \in
    {scratchAlongAcross(toScratch, dir2D) :
       toScratch \in {vsub(worldPos, scratchPos)},
       dir2D \in {normalize(vec3(direction[1], direction[2], float(0)))}} :
    TRUE

\* the switch on damage.type, applied to mask
damagePattern(mask, damage, distance, falloff, p) ==
  CASE damage.type = "scratch" ->
         IF damage.direction # None
         THEN mul(mask, calculateScratchMask(p.positionWorld, damage.position,
                                             normalize(damage.direction[1])))
         ELSE mask
    [] damage.type = "crack" ->
         mul(mask, oneMinus(NoiseGenerator_generate(crackNoiseConfig, p)))
    [] damage.type = "bullet" ->
         mul(mask, pow(oneMinus(fract(mul(distance, float(3)))), float(2)))
    [] damage.type = "dent" -> mul(mask, falloff)
    [] damage.type = "corrosion" ->
         mul(mask, NoiseGenerator_generate(corrosionNoiseConfig, p))
    [] OTHER -> mask

\* falloff * intensity * (noise * 0.3 + 0.7), then the type's pattern
damageFalloff(damage, distance, falloff, p) ==
  saturate(
    damagePattern(
      mul(mul(falloff, damage.intensity),
          add(mul(NoiseGenerator_generate(damageNoise, p), R(3, 10)),
              R(7, 10))),
      damage, distance, falloff, p))

damageAtDistance(damage, distance, p) ==
  CHOOSE r \in
    {damageFalloff(damage, d, falloff, p) :
       d \in {distance},
       falloff \in {saturate(oneMinus(div(distance, damage.radius)))}} : TRUE

calculateDamageMask(damage, p) ==
  damageAtDistance(damage, length(vsub(p.positionWorld, damage.position)), p)

\* saturate(1 - |u - 0.5| * 2)
inBounds(u) == saturate(oneMinus(mul(fabs(sub(u, R(1, 2))), float(2))))

\* inBounds * saturate(1 - 2 * |decalUV - 0.5|)^1.5
planarFootprint(decalUV) ==
  LET centerDist ==
        mul(sqrt(add(mul(sub(decalUV[1], R(1, 2)), sub(decalUV[1], R(1, 2))),
                     mul(sub(decalUV[2], R(1, 2)), sub(decalUV[2], R(1, 2))))),
            float(2))
      falloff == pow(saturate(oneMinus(centerDist)), R(3, 2))
  IN  mul(mul(inBounds(decalUV[1]), inBounds(decalUV[2])), falloff)

\* 1 - min(elapsed / lifetime, 1), elapsed in seconds since fadeStartTime
fadeFactor(decal, now) ==
  oneMinus(min(div(R(now - decal.fadeStartTime[1], 1000), decal.lifetime[1]),
               float(1)))

hasLifetimeFade(decal) ==
  /\ decal.lifetime # None /\ decal.lifetime[1] # float(0)
  /\ decal.fadeStartTime # None /\ decal.fadeStartTime[1] # 0

worldSpaceFade(mask, decal, p) ==
  mul(IF hasLifetimeFade(decal) THEN mul(mask, fadeFactor(decal, p.now))
      ELSE mask,
      smoothstep(R(1, 10), R(1, 2), fabs(dot(p.normalWorld, up))))

calculateWorldSpaceDecalMask(decal, p) ==
  CHOOSE r \in
    {saturate(worldSpaceFade(planarFootprint(decalUV), decal, p)) :
       decalUV \in
         {<<add(div(sub(p.positionWorld[1], decal.position[1]), decal.size[1]),
                R(1, 2)),
            add(div(sub(p.positionWorld[3], decal.position[3]), decal.size[3]),
                R(1, 2))>>}} : TRUE

calculateUVSpaceDecalMask(decal, p) ==
  saturate(planarFootprint(p.uv))

calculateBoxDecalMask(decal, p) ==
  CHOOSE r \in
    {mul(mul(saturate(oneMinus(div(fabs(localPos[1]), halfSize[1]))),
             saturate(oneMinus(div(fabs(localPos[2]), halfSize[2])))),
         saturate(oneMinus(div(fabs(localPos[3]), halfSize[3])))) :
       localPos \in {vsub(p.positionWorld, decal.position)},
       halfSize \in {vscale(decal.size, R(1, 2))}} : TRUE

calculateSphereDecalMask(decal, p) ==
  LET distance == length(vsub(p.positionWorld, decal.position))
      radius == mul(max(max(decal.size[1], decal.size[2]), decal.size[3]),
                    R(1, 2))
  IN  saturate(oneMinus(div(distance, radius)))

calculateDecalMask(decal, useWorldSpace, p) ==
  CASE decal.projection = "box" -> calculateBoxDecalMask(decal, p)
    [] decal.projection = "sphere" -> calculateSphereDecalMask(decal, p)
    [] OTHER -> IF useWorldSpace
                THEN calculateWorldSpaceDecalMask(decal, p)
                ELSE calculateUVSpaceDecalMask(decal, p)

\* every decal is blended with the fixed modes normal / rnb
decalConfigWithBlend(decal) ==
  [decal.layer EXCEPT
     !.blendMode = Some([color |-> Some("normal"), normal |-> Some("rnb"),
                         roughness |-> Some("normal"),
                         metalness |-> Some("normal"),
                         ao |-> Some("normal")])]

RECURSIVE applyDamages(_, _, _, _)
applyDamages(baseData, damages, i, p) ==
  IF i <= Len(damages)
  THEN applyDamages(
         LayerBlender_blend(baseData, sampleLayer(damages[i].layer, p),
                            calculateDamageMask(damages[i], p),
                            damages[i].layer, p),
         damages, i + 1, p)
  ELSE baseData

RECURSIVE applyDecals(_, _, _, _, _)
applyDecals(baseData, decals, i, useWorldSpace, p) ==
  IF i <= Len(decals)
  THEN applyDecals(
         LayerBlender_blend(baseData, sampleLayer(decals[i].layer, p),
                            calculateDecalMask(decals[i], useWorldSpace, p),
                            decalConfigWithBlend(decals[i]), p),
         decals, i + 1, useWorldSpace, p)
  ELSE baseData

\* DecalLayeredMaterial.buildLayerBlending: super's composite, then the
\* damages, then the decals
Decal_buildLayerBlending(ls, damages, decals, useWorldSpace, p) ==
  applyDecals(applyDamages(buildLayerBlending(ls, p), damages, 1, p),
              decals, 1, useWorldSpace, p)

(***************************************************************************)
(* The universe the model draws from: textures, surface points, layers     *)
(***************************************************************************)
MaxLayers == 3

s4(r, g, b, a) == <<r, g, b, a>>

TexColor ==
  [uv |-> s4(R(1, 2), R(1, 4), float(0), float(1)),
   x |-> s4(float(1), float(0), float(0), float(1)),
   y |-> s4(float(0), float(1), float(0), float(1)),
   z |-> s4(float(0), float(0), float(1), float(1))]

\* packs the tangent-space normal (3/5, 0, 4/5)
TexNormal ==
  [c \in {"uv", "x", "y", "z"} |-> s4(R(4, 5), R(1, 2), R(9, 10), float(1))]

\* ao 1/4, roughness 3/4, metalness 1
TexArm ==
  [c \in {"uv", "x", "y", "z"} |-> s4(R(1, 4), R(3, 4), float(1), float(1))]

TexGray ==
  [c \in {"uv", "x", "y", "z"} |-> s4(R(1, 4), R(1, 4), R(1, 4), R(3, 4))]

TexHeight ==
  [c \in {"uv", "x", "y", "z"} |-> s4(R(3, 4), R(3, 4), R(3, 4), float(1))]

TexMask ==
  [c \in {"uv", "x", "y", "z"} |-> s4(R(1, 2), float(1), float(0), R(1, 4))]

\* a surface point: what the shader inputs evaluate to there, and the clock
\* (Date.now(), in milliseconds) at the time the graph is built
Point(nw, nl, pos, uvc, wear, perlin, fbm, voronoi) ==
  [normalWorld |-> nw, normalLocal |-> nl, positionWorld |-> pos, uv |-> uvc,
   wear |-> wear,
   noise |-> [perlin |-> perlin, fbm |-> fbm, voronoi |-> voronoi],
   dN |-> <<float(0), float(0)>>, now |-> 3000]

PointUp ==
  Point(vec3(float(0), float(1), float(0)), vec3(float(0), float(0), float(1)),
        vec3(float(0), float(10), float(0)), <<R(1, 2), R(1, 2)>>,
        float(0), R(1, 2), R(1, 4), R(-1, 4))

PointSlope ==
  Point(vec3(R(4, 5), R(3, 5), float(0)), vec3(float(0), float(1), float(0)),
        vec3(R(1, 2), float(5), float(0)), <<R(1, 4), R(1, 2)>>,
        R(1, 2), float(1), R(3, 4), R(1, 2))

PointWall ==
  Point(vec3(float(1), float(0), float(0)), vec3(R(3, 5), float(0), R(4, 5)),
        vec3(float(0), float(0), float(0)), <<float(0), float(0)>>,
        float(1), float(0), R(1, 2), float(1))

PointDown ==
  Point(vec3(float(0), float(-1), float(0)), vec3(float(1), float(0), float(0)),
        vec3(R(3, 10), float(-5), R(2, 5)), <<R(3, 4), R(1, 4)>>,
        R(1, 4), R(1, 4), float(0), R(3, 4))

\* the points the pure functions are evaluated at
Points == {PointUp, PointSlope, PointWall, PointDown}

\* the points the material's graph is evaluated at
ViewPoints == {PointSlope, PointDown}

NoMask ==
  [map |-> None, channel |-> None, invert |-> FALSE,
   useSlope |-> FALSE, slopeMin |-> None, slopeMax |-> None,
   useHeight |-> FALSE, heightMin |-> None, heightMax |-> None,
   useNoise |-> FALSE, noiseType |-> None, noiseThreshold |-> None,
   opacityMultiplier |-> None, constantOpacity |-> None]

NoMap ==
  [color |-> None, normal |-> None, roughness |-> None, metalness |-> None,
   ao |-> None, height |-> None, arm |-> None]

NoBlendMode ==
  [color |-> None, normal |-> None, roughness |-> None, metalness |-> None,
   ao |-> None]

NoMaterial ==
  [colorNode |-> None, normalNode |-> None, roughnessNode |-> None,
   roughness |-> None, metalnessNode |-> None, metalness |-> None,
   aoNode |-> None, aoMap |-> None, map |-> None, normalMap |-> None,
   roughnessMap |-> None, metalnessMap |-> None, displacementMap |-> None]

NoEdgeWear ==
  [enable |-> FALSE, affectsMaterial |-> FALSE, color |-> None,
   roughness |-> None, metalness |-> None]

NoTriplanar == [enable |-> FALSE, useWorldPosition |-> FALSE]

NoHeightBlend == [enable |-> FALSE, strength |-> None, sharpness |-> None]

\* a LayerConfig with every optional property undefined
EmptyLayer ==
  [name |-> "", materialInput |-> None, extractTextures |-> FALSE,
   map |-> None, color |-> None, roughness |-> None, metalness |-> None,
   colorTint |-> None, edgeWear |-> None, triplanar |-> None, mask |-> None,
   heightBlend |-> None, blendMode |-> None]

colorVec(v) == Some([isTexture |-> FALSE, tex |-> TexColor, vec |-> v])

colorTex(t) ==
  Some([isTexture |-> TRUE, tex |-> t,
        vec |-> vec3(float(0), float(0), float(0))])

\* baseGrass: solid colour, roughness 0.8
LGrass ==
  [EmptyLayer EXCEPT
     !.name = "grass",
     !.color = Some(vec3(R(1, 4), R(1, 2), R(1, 4))),
     !.roughness = Some(R(4, 5))]

\* rock: textured, slope mask over [0.4, 0.8], height blending requested
LRock ==
  [EmptyLayer EXCEPT
     !.name = "rock",
     !.map = Some([NoMap EXCEPT !.color = colorTex(TexColor),
                                !.arm = Some(TexArm),
                                !.height = Some(TexHeight)]),
     !.mask = Some([NoMask EXCEPT !.useSlope = TRUE,
                                  !.slopeMin = Some(R(2, 5)),
                                  !.slopeMax = Some(R(4, 5))]),
     !.heightBlend = Some([enable |-> TRUE, strength |-> Some(float(2)),
                           sharpness |-> Some(float(4))]),
     !.blendMode = Some([NoBlendMode EXCEPT !.normal = Some("rnb"),
                                            !.roughness = Some("max")])]

\* snow: solid white, inverted height and noise mask, screen / multiply
LSnow ==
  [EmptyLayer EXCEPT
     !.name = "snow",
     !.color = Some(vec3(float(1), float(1), float(1))),
     !.roughness = Some(R(1, 4)),
     !.colorTint = Some(vec3(float(1), R(1, 2), R(1, 2))),
     !.mask = Some([NoMask EXCEPT !.useHeight = TRUE,
                                  !.heightMin = Some(float(-5)),
                                  !.heightMax = Some(float(5)),
                                  !.useNoise = TRUE,
                                  !.invert = TRUE]),
     !.blendMode = Some([NoBlendMode EXCEPT !.color = Some("screen"),
                                            !.ao = Some("multiply"),
                                            !.metalness = Some("add")])]

\* metal: an extracted material, texture mask on channel a
LMetal ==
  [EmptyLayer EXCEPT
     !.name = "metal",
     !.materialInput =
        Some([NoMaterial EXCEPT
                !.colorNode = Some(vec3(R(1, 2), R(1, 2), R(3, 4))),
                !.roughness = Some(R(1, 4)),
                !.metalness = Some(float(1))]),
     !.mask = Some([NoMask EXCEPT !.map = Some(TexMask),
                                  !.channel = Some("a")]),
     !.blendMode = Some([NoBlendMode EXCEPT !.color = Some("overlay"),
                                            !.normal = Some("linear")])]

\* the layers the editing operations draw from
LayerSet == {LGrass, LRock, LMetal}

\* a Partial<LayerConfig>: a record of the properties it gives
UpdateSet == {[roughness |-> Some(R(3, 4)), mask |-> [invert |-> TRUE]]}


(***************************************************************************)
(* Inputs of the pure functions                                            *)
(***************************************************************************)
\* roughness, metalness, ao and blend factors
Scalars == {float(0), R(1, 4), R(1, 2), R(3, 4), float(1)}

NormalFactors == {float(0), R(1, 2), R(5, 6), float(1)}

\* unit-length tangent-space normals, the last two grazing (z = 0)
UnitNormals ==
  {vec3(float(0), float(0), float(1)),
   vec3(R(3, 5), float(0), R(4, 5)),
   vec3(float(0), R(-3, 5), R(4, 5)),
   vec3(R(4, 5), float(0), R(3, 5)),
   vec3(R(-24, 25), float(0), R(7, 25)),
   vec3(R(-3, 5), float(0), R(4, 5)),
   vec3(float(1), float(0), float(0)),
   vec3(float(-1), float(0), float(0))}

Colors ==
  {vec3(float(0), float(0), float(0)),
   vec3(R(1, 4), R(1, 2), float(1)),
   vec3(float(1), float(1), float(1))}

ColorFactors == {float(0), R(1, 2), float(1)}

Tint == Some(vec3(R(1, 2), float(1), R(1, 4)))

Wear == Some([NoEdgeWear EXCEPT !.enable = TRUE])

Triplanar == Some([NoTriplanar EXCEPT !.enable = TRUE])

TexturedMaterial ==
  [NoMaterial EXCEPT !.map = Some(TexColor), !.roughness = Some(R(1, 2)),
                     !.metalness = Some(float(0))]

\* triplanar projection of a texture bundle, tinted
LTri ==
  [EmptyLayer EXCEPT
     !.name = "tri",
     !.map = Some([NoMap EXCEPT !.color = colorTex(TexColor)]),
     !.triplanar = Triplanar,
     !.colorTint = Tint]

\* triplanar requested without a texture bundle
LTriNoMap ==
  [EmptyLayer EXCEPT
     !.name = "triNoMap",
     !.color = Some(vec3(R(1, 4), R(1, 2), R(1, 4))),
     !.triplanar = Triplanar,
     !.colorTint = Tint]

\* an extracted material next to a texture bundle and the triplanar flag
LExtracted ==
  [LMetal EXCEPT
     !.name = "extracted",
     !.map = Some([NoMap EXCEPT !.color = colorTex(TexGray)]),
     !.triplanar = Triplanar,
     !.colorTint = Tint]

\* an extracted material whose textures are re-sampled
LExtractedTex ==
  [EmptyLayer EXCEPT
     !.name = "extractedTex",
     !.materialInput = Some(TexturedMaterial),
     !.extractTextures = TRUE,
     !.colorTint = Tint]

\* planar textures, tinted and worn
LTexTint ==
  [EmptyLayer EXCEPT
     !.name = "texTint",
     !.map = Some([NoMap EXCEPT !.color = colorTex(TexColor),
                                !.normal = Some(TexNormal)]),
     !.colorTint = Tint,
     !.edgeWear = Wear]

\* solid values, tinted and worn
LSolidTint ==
  [EmptyLayer EXCEPT
     !.name = "solidTint",
     !.color = Some(vec3(R(1, 2), R(1, 2), R(1, 2))),
     !.colorTint = Tint,
     !.edgeWear = Wear]

ProbeLayers ==
  LayerSet \cup {LSnow, LTri, LTriNoMap, LExtracted, LExtractedTex, LTexTint,
                 LSolidTint, EmptyLayer}

\* [min, max] ranges of the slope and height masks; <<>> is "not given"
SlopeRanges ==
  {<<FALSE, None, None>>, <<TRUE, None, None>>,
   <<TRUE, Some(R(2, 5)), Some(R(4, 5))>>,
   <<TRUE, Some(float(-1)), Some(float(0))>>}

HeightRanges ==
  {<<FALSE, None, None>>, <<TRUE, None, None>>,
   <<TRUE, Some(float(-5)), Some(float(5))>>,
   <<TRUE, Some(float(-10)), Some(float(0))>>}

NoiseChoices ==
  {<<FALSE, None, None>>, <<TRUE, Some("perlin"), None>>,
   <<TRUE, Some("fbm"), Some(R(1, 2))>>}

MaskSet ==
  {[map |-> m[1], channel |-> m[2], invert |-> iv,
    useSlope |-> s[1], slopeMin |-> s[2], slopeMax |-> s[3],
    useHeight |-> h[1], heightMin |-> h[2], heightMax |-> h[3],
    useNoise |-> n[1], noiseType |-> n[2], noiseThreshold |-> n[3]] :
     m \in {<<None, None>>, <<Some(TexMask), None>>, <<Some(TexMask), Some("a")>>},
     iv \in BOOLEAN, s \in SlopeRanges, h \in HeightRanges,
     n \in NoiseChoices}

MaskLayers ==
  {EmptyLayer} \cup {[EmptyLayer EXCEPT !.mask = Some(m)] : m \in MaskSet}

\* the layer a damage or a decal paints
LRust ==
  [EmptyLayer EXCEPT
     !.name = "rust",
     !.color = Some(vec3(R(1, 2), R(1, 4), float(0))),
     !.roughness = Some(float(1))]

DamageTypes == {"scratch", "dent", "bullet", "crack", "corrosion"}

Damages ==
  {[type |-> t, position |-> vec3(float(0), float(0), float(0)),
    radius |-> r, intensity |-> i, direction |-> d, layer |-> LRust] :
     t \in DamageTypes, r \in {float(1), float(10)},
     i \in {R(1, 2), float(2)},
     d \in {None, Some(vec3(float(1), float(0), float(0))),
            Some(vec3(float(0), float(0), float(1)))}}

Decals ==
  {[projection |-> pr, position |-> vec3(float(0), float(0), float(0)),
    size |-> sz, lifetime |-> lf[1], fadeStartTime |-> lf[2],
    layer |-> LRust] :
     pr \in {"planar", "box", "sphere"},
     sz \in {vec3(float(1), float(1), float(1)),
             vec3(float(2), float(24), float(2))},
     lf \in {<<None, None>>, <<Some(float(2)), Some(2000)>>}}

\* a dent and a sphere decal out of reach of every surface point, and near
DFar ==
  [type |-> "dent", position |-> vec3(float(100), float(0), float(0)),
   radius |-> float(1), intensity |-> float(1), direction |-> None,
   layer |-> LRust]

DNear == [DFar EXCEPT !.position = vec3(float(0), float(0), float(0)),
                      !.radius = float(24)]

KFar ==
  [projection |-> "sphere", position |-> vec3(float(100), float(0), float(0)),
   size |-> vec3(float(1), float(1), float(1)), lifetime |-> None,
   fadeStartTime |-> None, layer |-> LRust]

KNear == [KFar EXCEPT !.position = vec3(float(0), float(0), float(0)),
                      !.size = vec3(float(24), float(24), float(24))]

\* every stack of at most MaxLayers layers
Stacks ==
  UNION {[1..n -> LayerSet \cup {LSnow}] : n \in 0..MaxLayers}

\* a sample with the given height
sampleWithHeight(h) ==
  [color |-> vec3(R(1, 2), R(1, 2), R(1, 2)),
   normal |-> vec3(float(0), float(0), float(1)),
   roughness |-> R(1, 2), metalness |-> float(0), ao |-> float(1),
   height |-> Some(h)]
(***************************************************************************)
(* State                                                                   *)
(***************************************************************************)
VARIABLES
  layers,         \* LayeredMaterial.layers
  colorNode,      \* the five outputs setupMaterial binds, at the point pt
  normalNode,
  roughnessNode,
  metalnessNode,
  aoNode,
  needsUpdate,    \* Material.needsUpdate
  pt,             \* the surface point the graph is evaluated at
  probe,          \* inputs and result of a pure function under test
  variant,        \* a MaterialVariant or ObservableMaterialVariant of the material
  listeners,      \* ObservableLayeredMaterial._listeners
  invoked,        \* the listeners the last mutator of the material invoked
  polled,         \* what the closure of startUpdatePolling remembers
  dyn,            \* the private fields of a DynamicLayeredMaterial
  began,          \* the layers the material had when its transition began
  decal,          \* the private fields of a DecalLayeredMaterial
  clock           \* Date.now(), in milliseconds

vars == <<layers, colorNode, normalNode, roughnessNode, metalnessNode, aoNode,
          needsUpdate, pt, probe, variant, listeners, invoked,
          polled, dyn, began, decal, clock>>

variantVars == <<variant, listeners, invoked, polled>>

dynamicVars == <<dyn, began>>

decalVars == <<decal, clock>>

\* the state of the classes built on LayeredMaterial

extensionVars == <<variantVars, dynamicVars, decalVars>>

\* the value of a variable whose object was not constructed
Absent == [kind |-> "none"]

NoExtensions ==
  /\ variant = Absent
  /\ listeners = <<>>
  /\ invoked = <<>>
  /\ polled = Absent
  /\ dyn = Absent
  /\ began = <<>>
  /\ decal = Absent
  /\ clock = 0

Idle == [op |-> "none"]

(***************************************************************************)
(* LayeredMaterial                                                         *)
(***************************************************************************)
\* setupMaterial() that leaves the bound outputs as they were
C11_setupMaterialStale(ls) ==
  UNCHANGED <<colorNode, normalNode, roughnessNode, metalnessNode, aoNode>>

\* setupMaterial() run on the layer list ls
setupMaterial(ls) ==
  \E layerBlend \in {buildLayerBlending(ls, pt)} :
      /\ colorNode' = layerBlend.color
      /\ normalNode' = layerBlend.normal
      /\ roughnessNode' = layerBlend.roughness
      /\ metalnessNode' = layerBlend.metalness
      /\ aoNode' = layerBlend.ao

\* Array.prototype.splice(start, deleteCount, ...items): the array left
spliceStart(ls, start) ==
  IF start < 0
  THEN (IF Len(ls) + start < 0 THEN 0 ELSE Len(ls) + start)
  ELSE (IF start > Len(ls) THEN Len(ls) ELSE start)

splice(ls, start, deleteCount, items) ==
  LET s0 == spliceStart(ls, start)
      dc == IF deleteCount > Len(ls) - s0 THEN Len(ls) - s0 ELSE deleteCount
  IN  SubSeq(ls, 1, s0) \o items \o SubSeq(ls, s0 + dc + 1, Len(ls))

\* the empty object a nested property is merged onto when it was undefined
emptyNested(f) ==
  CASE f = "mask" -> NoMask
    [] f = "map" -> NoMap
    [] f = "edgeWear" -> NoEdgeWear
    [] f = "triplanar" -> NoTriplanar
    [] f = "heightBlend" -> NoHeightBlend
    [] f = "blendMode" -> NoBlendMode
    [] f = "colorTint" -> vec3(float(1), float(1), float(1))

NestedProperties ==
  {"mask", "map", "edgeWear", "triplanar", "heightBlend", "blendMode",
   "colorTint"}

\* a nested object taken from config alone, nothing of existing[f] kept
C24_replaceNested(existing, partial, f) ==
  Some([g \in DOMAIN emptyNested(f) |->
          IF g \in DOMAIN partial THEN partial[g] ELSE emptyNested(f)[g]])

\* { ...(existing[f] || {}), ...config[f] }
mergeNested(existing, partial, f) ==
  Some([g \in DOMAIN emptyNested(f) |->
          IF g \in DOMAIN partial THEN partial[g]
          ELSE Nullish(existing, emptyNested(f))[g]])

\* { ...existing, ...config, mask: ..., map: ..., ... } of updateLayer
mergeLayer(existing, config) ==
  [f \in DOMAIN existing |->
     IF f \notin DOMAIN config THEN existing[f]
     ELSE IF f \in NestedProperties
     THEN mergeNested(existing[f], config[f], f)
     ELSE config[f]]

\* new LayeredMaterial(): options.layers || [], then setupMaterial()
Init ==
  /\ layers = <<>>
  /\ pt \in ViewPoints
  /\ \E layerBlend \in {buildLayerBlending(<<>>, pt)} :
       /\ colorNode = layerBlend.color
       /\ normalNode = layerBlend.normal
       /\ roughnessNode = layerBlend.roughness
       /\ metalnessNode = layerBlend.metalness
       /\ aoNode = layerBlend.ao
  /\ needsUpdate = FALSE
  /\ probe = Idle
  /\ NoExtensions

\* what this.layers is after removeLayer(index)
layersAfterRemove(ls, index) == splice(ls, index, 1, <<>>)

\* Math.max(0, Math.min(index, this.layers.length))
clampIndex(ls, index) ==
  IF index > Len(ls) THEN Len(ls) ELSE IF index < 0 THEN 0 ELSE index

\* what this.layers is after insertLayer(index, config)
layersAfterInsert(ls, index, config) ==
  splice(ls, clampIndex(ls, index), 0, <<config>>)

\* the early returns of moveLayer and of swapLayers
returnsEarly(ls, indexA, indexB) ==
  \/ indexA < 0 \/ indexA >= Len(ls)
  \/ indexB < 0 \/ indexB >= Len(ls)
  \/ indexA = indexB

\* moveLayer that exchanges the two layers instead
C23_moveExchanges(ls, fromIndex, toIndex) ==
  IF returnsEarly(ls, fromIndex, toIndex) THEN ls
  ELSE [ls EXCEPT ![fromIndex + 1] = ls[toIndex + 1],
                  ![toIndex + 1] = ls[fromIndex + 1]]

\* what this.layers is after moveLayer(fromIndex, toIndex)
layersAfterMove(ls, fromIndex, toIndex) ==
  IF returnsEarly(ls, fromIndex, toIndex) THEN ls
  ELSE splice(splice(ls, fromIndex, 1, <<>>), toIndex, 0,
              <<ls[fromIndex + 1]>>)

\* what this.layers is after swapLayers(indexA, indexB)
layersAfterSwap(ls, indexA, indexB) ==
  IF returnsEarly(ls, indexA, indexB) THEN ls
  ELSE [ls EXCEPT ![indexA + 1] = ls[indexB + 1],
                  ![indexB + 1] = ls[indexA + 1]]

\* updateLayer has no layer to merge onto: reading existing.mask throws a
\* TypeError before anything is written
throwsOnUpdate(ls, index) == index < 0 \/ index >= Len(ls)

\* what this.layers is after updateLayer(index, config)
layersAfterUpdate(ls, index, config) ==
  IF throwsOnUpdate(ls, index) THEN ls
  ELSE [ls EXCEPT ![index + 1] = mergeLayer(ls[index + 1], config)]

addLayer ==
  \E config \in LayerSet :
    /\ Len(layers) < MaxLayers
    /\ layers' = Append(layers, config)
    /\ setupMaterial(Append(layers, config))
    /\ needsUpdate' = TRUE
    /\ UNCHANGED <<pt, probe, extensionVars>>

removeLayer ==
  \E index \in -1..MaxLayers :
    \E left \in {layersAfterRemove(layers, index)} :
      /\ layers' = left
      /\ setupMaterial(left)
      /\ needsUpdate' = TRUE
      /\ UNCHANGED <<pt, probe, extensionVars>>

insertLayer ==
  \E index \in -1..(MaxLayers + 1), config \in LayerSet :
    \E left \in {layersAfterInsert(layers, index, config)} :
      /\ Len(layers) < MaxLayers
      /\ layers' = left
      /\ setupMaterial(left)
      /\ needsUpdate' = TRUE
      /\ UNCHANGED <<pt, probe, extensionVars>>

moveLayer ==
  \E fromIndex \in -1..MaxLayers, toIndex \in -1..MaxLayers :
    IF returnsEarly(layers, fromIndex, toIndex)
    THEN UNCHANGED vars
    ELSE \E left \in {layersAfterMove(layers, fromIndex, toIndex)} :
           /\ layers' = left
           /\ setupMaterial(left)
           /\ needsUpdate' = TRUE
           /\ UNCHANGED <<pt, probe, extensionVars>>

swapLayers ==
  \E indexA \in -1..MaxLayers, indexB \in -1..MaxLayers :
    IF returnsEarly(layers, indexA, indexB)
    THEN UNCHANGED vars
    ELSE \E left \in {layersAfterSwap(layers, indexA, indexB)} :
           /\ layers' = left
           /\ setupMaterial(left)
           /\ needsUpdate' = TRUE
           /\ UNCHANGED <<pt, probe, extensionVars>>

updateLayer ==
  \E index \in -1..MaxLayers, config \in UpdateSet :
    IF throwsOnUpdate(layers, index)
    THEN UNCHANGED vars
    ELSE \E left \in {layersAfterUpdate(layers, index, config)} :
           /\ layers' = left
           /\ setupMaterial(left)
           /\ needsUpdate' = TRUE
           /\ UNCHANGED <<pt, probe, extensionVars>>

Next ==
  \/ addLayer
  \/ removeLayer
  \/ insertLayer
  \/ moveLayer
  \/ swapLayers
  \/ updateLayer

Spec == Init /\ [][Next]_vars

(***************************************************************************)
(* MaterialVariant, ObservableLayeredMaterial, ObservableMaterialVariant   *)
(***************************************************************************)
\* the most layers the base of a variant holds
MaxBaseLayers == 2

\* two unnamed solid layers, alike in all that hashLayer reads
LRed == [EmptyLayer EXCEPT !.color = Some(vec3(float(1), float(0), float(0)))]

LBlue == [EmptyLayer EXCEPT !.color = Some(vec3(float(0), float(0), float(1)))]

BaseLayerSet == {LRed, LBlue}

\* the override lists a variant is given: Partial<LayerConfig>[]
OverrideSets == {<<[roughness |-> Some(R(1, 2))]>>}

\* the Partial<LayerConfig> the base is updated with: it turns either layer
\* into a rough blue one, which hashLayer tells from both
BaseUpdateSet ==
  {[color |-> Some(vec3(float(0), float(0), float(1))),
    roughness |-> Some(R(3, 4))]}

\* the point the variant specifications evaluate the graphs at
VariantPoint == PointSlope

\* the five nodes setupMaterial binds, for the layer list ls
materialOutputs(ls, p) ==
  CHOOSE r \in
    {<<b.color, b.normal, b.roughness, b.metalness, b.ao>> :
       b \in {buildLayerBlending(ls, p)}} : TRUE

\* { ...baseLayer, ...override }
spreadOver(baseLayer, override) ==
  [f \in DOMAIN baseLayer |->
     IF f \in DOMAIN override THEN override[f] ELSE baseLayer[f]]

\* MaterialVariant.mergeLayersWithOverrides
mergeLayersWithOverrides(baseLayers, overrides) ==
  [index \in 1..Len(baseLayers) |->
     IF index - 1 < Len(overrides)
     THEN spreadOver(baseLayers[index], overrides[index])
     ELSE baseLayers[index]]

\* hashLayer: the properties it serialises (no layer here sets scale)
hashLayer(layer) == <<layer.name, layer.roughness, layer.metalness>>

hashLayers(ls) == [i \in 1..Len(ls) |-> hashLayer(ls[i])]

\* the body of onBaseLayersChanged: the variant, now with the overrides
\* given, re-merged from baseLayers, set up again and flagged
remerge(overrides, baseLayers) ==
  \E mergedLayers \in {mergeLayersWithOverrides(baseLayers, overrides)} :
    \E bound \in {materialOutputs(mergedLayers, VariantPoint)} :
      variant' = [variant EXCEPT !.overrides = overrides,
                                 !.layers = mergedLayers,
                                 !.outputs = bound,
                                 !.needsUpdate = TRUE]

\* MaterialVariant.onBaseLayersChanged / ObservableMaterialVariant's
onBaseLayersChanged(overrides, baseLayers) ==
  IF variant.kind = "MaterialVariant" /\ variant.isUpdating
  THEN UNCHANGED variant
  ELSE remerge(overrides, baseLayers)

\* whether addLayer, removeLayer and updateLayer of the base reach the
\* variant: through the wrappers interceptBaseMaterialMethods installed,
\* or through notifyChange and the listener the variant registered
reachesVariant ==
  \/ variant.kind = "MaterialVariant"
  \/ \E i \in 1..Len(listeners) : listeners[i] = "changeListener"

\* the listeners a mutator of the base has invoked when it returns
notifyChange == IF variant.kind = "MaterialVariant" THEN <<>> ELSE listeners

\* new MaterialVariant(base, overrides) / new ObservableMaterialVariant(...)
newVariant(kind, baseLayers, overrides) ==
  [kind |-> kind,
   overrides |-> overrides,
   isUpdating |-> FALSE,
   layers |-> mergeLayersWithOverrides(baseLayers, overrides),
   outputs |-> materialOutputs(mergeLayersWithOverrides(baseLayers, overrides),
                               VariantPoint),
   needsUpdate |-> FALSE,
   disposed |-> FALSE]

\* a base material with two layers, and one variant of it of the kind given
InitVariantOf(kind) ==
  /\ layers = <<LRed, LBlue>>
  /\ pt = VariantPoint
  /\ \E layerBlend \in {buildLayerBlending(layers, pt)} :
       /\ colorNode = layerBlend.color
       /\ normalNode = layerBlend.normal
       /\ roughnessNode = layerBlend.roughness
       /\ metalnessNode = layerBlend.metalness
       /\ aoNode = layerBlend.ao
  /\ needsUpdate = FALSE
  /\ probe = Idle
  /\ dyn = Absent
  /\ began = <<>>
  /\ decal = Absent
  /\ clock = 0
  /\ \E overrides \in OverrideSets :
       variant = newVariant(kind, layers, overrides)
  /\ invoked = <<>>

\* startUpdatePolling: what the closure remembers of the base
InitVariant ==
  /\ InitVariantOf("MaterialVariant")
  /\ listeners = <<>>
  /\ polled = [lastLayerCount |-> Len(layers),
               lastLayerHashes |-> hashLayers(layers)]

\* the variant registers its change listener with the observable base
InitObservable ==
  /\ InitVariantOf("ObservableMaterialVariant")
  /\ listeners = <<"changeListener">>
  /\ polled = Absent

\* base.addLayer: the wrapper of the variant, or the override that notifies
BaseAddLayer ==
  \E config \in BaseLayerSet :
    /\ Len(layers) < MaxBaseLayers
    /\ layers' = Append(layers, config)
    /\ setupMaterial(Append(layers, config))
    /\ needsUpdate' = TRUE
    /\ IF reachesVariant
       THEN onBaseLayersChanged(variant.overrides, Append(layers, config))
       ELSE UNCHANGED variant
    /\ invoked' = notifyChange
    /\ UNCHANGED <<pt, probe, dynamicVars, decalVars, listeners, polled>>

BaseRemoveLayer ==
  \E index \in 0..MaxBaseLayers :
    /\ layers' = splice(layers, index, 1, <<>>)
    /\ setupMaterial(splice(layers, index, 1, <<>>))
    /\ needsUpdate' = TRUE
    /\ IF reachesVariant
       THEN onBaseLayersChanged(variant.overrides,
                                splice(layers, index, 1, <<>>))
       ELSE UNCHANGED variant
    /\ invoked' = notifyChange
    /\ UNCHANGED <<pt, probe, dynamicVars, decalVars, listeners, polled>>

\* with no layer at index the original throws and nobody is told
BaseUpdateLayer ==
  \E index \in 0..MaxBaseLayers, config \in BaseUpdateSet :
    IF index >= Len(layers)
    THEN UNCHANGED vars
    ELSE \E updated \in {[layers EXCEPT
                   ![index + 1] = mergeLayer(layers[index + 1], config)]} :
           /\ layers' = updated
           /\ setupMaterial(updated)
           /\ needsUpdate' = TRUE
           /\ IF reachesVariant
              THEN onBaseLayersChanged(variant.overrides, updated)
              ELSE UNCHANGED variant
           /\ invoked' = notifyChange
           /\ UNCHANGED <<pt, probe, dynamicVars, decalVars, listeners, polled>>

\* insertLayer, moveLayer and swapLayers are neither wrapped nor overridden
BaseInsertLayer ==
  \E index \in 0..MaxBaseLayers, config \in BaseLayerSet :
    /\ Len(layers) < MaxBaseLayers
    /\ LET lo == IF index < Len(layers) THEN index ELSE Len(layers)
           clampedIndex == IF lo > 0 THEN lo ELSE 0
       IN  /\ layers' = splice(layers, clampedIndex, 0, <<config>>)
           /\ setupMaterial(splice(layers, clampedIndex, 0, <<config>>))
    /\ needsUpdate' = TRUE
    /\ invoked' = <<>>
    /\ UNCHANGED <<pt, probe, dynamicVars, decalVars, variant, listeners, polled>>

BaseMoveLayer ==
  \E fromIndex \in 0..MaxBaseLayers, toIndex \in 0..MaxBaseLayers :
    IF \/ fromIndex >= Len(layers)
       \/ toIndex >= Len(layers)
       \/ fromIndex = toIndex
    THEN UNCHANGED vars
    ELSE /\ LET layer == layers[fromIndex + 1]
                rest == splice(layers, fromIndex, 1, <<>>)
            IN  /\ layers' = splice(rest, toIndex, 0, <<layer>>)
                /\ setupMaterial(splice(rest, toIndex, 0, <<layer>>))
         /\ needsUpdate' = TRUE
         /\ invoked' = <<>>
         /\ UNCHANGED <<pt, probe, dynamicVars, decalVars, variant, listeners, polled>>

BaseSwapLayers ==
  \E indexA \in 0..MaxBaseLayers, indexB \in 0..MaxBaseLayers :
    IF \/ indexA >= Len(layers)
       \/ indexB >= Len(layers)
       \/ indexA = indexB
    THEN UNCHANGED vars
    ELSE /\ layers' = [layers EXCEPT ![indexA + 1] = layers[indexB + 1],
                                     ![indexB + 1] = layers[indexA + 1]]
         /\ setupMaterial([layers EXCEPT ![indexA + 1] = layers[indexB + 1],
                                         ![indexB + 1] = layers[indexA + 1]])
         /\ needsUpdate' = TRUE
         /\ invoked' = <<>>
         /\ UNCHANGED <<pt, probe, dynamicVars, decalVars, variant, listeners, polled>>

\* one run of checkForUpdates, the callback startUpdatePolling keeps
\* requesting an animation frame for; dispose does not stop it
CheckForUpdates ==
  /\ IF variant.isUpdating
     THEN UNCHANGED <<variant, polled>>
     ELSE \E currentLayerCount \in {Len(layers)},
             currentLayerHashes \in {hashLayers(layers)} :
            IF \/ currentLayerCount # polled.lastLayerCount
               \/ currentLayerHashes # polled.lastLayerHashes
            THEN /\ onBaseLayersChanged(variant.overrides, layers)
                 /\ polled' = [lastLayerCount |-> currentLayerCount,
                               lastLayerHashes |-> currentLayerHashes]
            ELSE UNCHANGED <<variant, polled>>
  /\ UNCHANGED <<layers, colorNode, normalNode, roughnessNode, metalnessNode,
                 aoNode, needsUpdate, pt, probe, dynamicVars, decalVars,
                 listeners, invoked>>

\* variant.setOverrides(overrides)
SetOverrides ==
  \E overrides \in OverrideSets :
    /\ onBaseLayersChanged(overrides, layers)
    /\ UNCHANGED <<layers, colorNode, normalNode, roughnessNode, metalnessNode,
                   aoNode, needsUpdate, pt, probe, dynamicVars, decalVars,
                 listeners, invoked, polled>>

\* removeChangeListener(listener): indexOf, then splice
removeChangeListener(ls, listener) ==
  IF \E i \in 1..Len(ls) : ls[i] = listener
  THEN splice(ls, (CHOOSE i \in 1..Len(ls) :
                     /\ ls[i] = listener
                     /\ \A j \in 1..(i - 1) : ls[j] # listener) - 1,
              1, <<>>)
  ELSE ls

\* variant.dispose(): MaterialVariant restores nothing and stops nothing,
\* ObservableMaterialVariant takes its listener off the base
Dispose ==
  /\ variant' = [variant EXCEPT !.disposed = TRUE]
  /\ listeners' =
       IF variant.kind = "MaterialVariant" THEN listeners
       ELSE removeChangeListener(listeners, "changeListener")
  /\ UNCHANGED <<layers, colorNode, normalNode, roughnessNode, metalnessNode,
                 aoNode, needsUpdate, pt, probe, dynamicVars, decalVars,
                 invoked, polled>>

NextVariant ==
  \/ BaseAddLayer
  \/ BaseRemoveLayer
  \/ BaseUpdateLayer
  \/ BaseInsertLayer
  \/ BaseMoveLayer
  \/ BaseSwapLayers
  \/ CheckForUpdates
  \/ SetOverrides
  \/ Dispose

\* a LayeredMaterial and a MaterialVariant of it
SpecVariant == InitVariant /\ [][NextVariant]_vars

\* the browser keeps running animation frames
FairSpecVariant == SpecVariant /\ WF_vars(CheckForUpdates)

NextObservable ==
  \/ BaseAddLayer
  \/ BaseRemoveLayer
  \/ BaseUpdateLayer
  \/ BaseInsertLayer
  \/ BaseMoveLayer
  \/ BaseSwapLayers
  \/ SetOverrides
  \/ Dispose

\* an ObservableLayeredMaterial and an ObservableMaterialVariant of it
SpecObservable == InitObservable /\ [][NextObservable]_vars

(***************************************************************************)
(* DynamicLayeredMaterial                                                  *)
(***************************************************************************)
\* the most layers addLayer grows a dynamic material to
MaxDynamicLayers == 2

\* a dry ground: colour texture, roughness 0.9
LDry ==
  [EmptyLayer EXCEPT
     !.name = "dry",
     !.map = Some([NoMap EXCEPT !.color = colorTex(TexColor)]),
     !.roughness = Some(R(9, 10))]

\* a wet ground: the same texture, tinted, roughness unset
LWet ==
  [EmptyLayer EXCEPT
     !.name = "wet",
     !.map = Some([NoMap EXCEPT !.color = colorTex(TexColor)]),
     !.colorTint = Some(vec3(R(1, 2), R(1, 2), float(1)))]

\* the layer lists a dynamic material is constructed with
SourceStacks == {<<LDry>>, <<LRed>>}

\* the layer lists it is sent towards
TargetStacks == {<<LWet>>, <<LDry, LBlue>>}

\* the factors setTransition is called with
Factors == {float(0), R(1, 2), float(1)}

\* the transitionSpeed argument of startTransition: undefined or a number
Speeds == {None, Some(float(1))}

\* the deltaTime of update
DeltaTimes == {R(1, 2)}

\* lerp(a, b, factor) on numbers that may be undefined
lerp(a, b, factor) ==
  IF a = None /\ b = None THEN None
  ELSE IF a = None THEN b
  ELSE IF b = None THEN a
  ELSE Some(add(a[1], mul(sub(b[1], a[1]), factor)))

\* blendRGBColors
blendRGBColors(source, target, factor) ==
  IF source = None /\ target = None THEN None
  ELSE IF source = None THEN target
  ELSE IF target = None THEN source
  ELSE Some(vadd(source[1], vscale(vsub(target[1], source[1]), factor)))

\* factor > 0.5 ? target : source
pick(source, target, factor) ==
  IF lessThan(R(1, 2), factor) THEN target ELSE source

\* blendEdgeWear: {} when both are undefined
blendEdgeWear(source, target, factor) ==
  IF source = None /\ target = None THEN Some(NoEdgeWear)
  ELSE CHOOSE r \in
    {Some([enable |-> pick(s.enable, t.enable, factor),
           affectsMaterial |->
             pick(s.affectsMaterial, t.affectsMaterial, factor),
           color |-> blendRGBColors(s.color, t.color, factor),
           roughness |-> lerp(s.roughness, t.roughness, factor),
           metalness |-> lerp(s.metalness, t.metalness, factor)]) :
       s \in {Nullish(source, NoEdgeWear)},
       t \in {Nullish(target, NoEdgeWear)}} : TRUE

\* blendMask: the opacity properties are reset
blendMask(source, target, factor) ==
  CHOOSE r \in
    {Some([map |-> pick(s.map, t.map, factor),
           channel |-> pick(s.channel, t.channel, factor),
           invert |-> pick(s.invert, t.invert, factor),
           useSlope |-> pick(s.useSlope, t.useSlope, factor),
           slopeMin |-> lerp(s.slopeMin, t.slopeMin, factor),
           slopeMax |-> lerp(s.slopeMax, t.slopeMax, factor),
           useHeight |-> pick(s.useHeight, t.useHeight, factor),
           heightMin |-> lerp(s.heightMin, t.heightMin, factor),
           heightMax |-> lerp(s.heightMax, t.heightMax, factor),
           useNoise |-> pick(s.useNoise, t.useNoise, factor),
           noiseType |-> pick(s.noiseType, t.noiseType, factor),
           noiseThreshold |->
             lerp(s.noiseThreshold, t.noiseThreshold, factor),
           opacityMultiplier |-> Some(float(1)),
           constantOpacity |-> None]) :
       s \in {Nullish(source, NoMask)},
       t \in {Nullish(target, NoMask)}} : TRUE

\* blendHeightBlend
blendHeightBlend(source, target, factor) ==
  CHOOSE r \in
    {Some([enable |-> pick(s.enable, t.enable, factor),
           strength |-> lerp(s.strength, t.strength, factor),
           sharpness |-> lerp(s.sharpness, t.sharpness, factor)]) :
       s \in {Nullish(source, NoHeightBlend)},
       t \in {Nullish(target, NoHeightBlend)}} : TRUE

\* blendSingleLayerConfig: the object literal names no materialInput, no
\* materialTransform, no color and no colorTint
blendSingleLayerConfig(source, target, factor) ==
  [name |-> pick(source.name, target.name, factor),
   materialInput |-> None,
   extractTextures |-> FALSE,
   map |-> Some(Nullish(pick(source.map, target.map, factor), NoMap)),
   color |-> None,
   roughness |-> lerp(source.roughness, target.roughness, factor),
   metalness |-> lerp(source.metalness, target.metalness, factor),
   colorTint |-> None,
   edgeWear |-> blendEdgeWear(source.edgeWear, target.edgeWear, factor),
   triplanar |->
     Some(Nullish(pick(source.triplanar, target.triplanar, factor),
                  NoTriplanar)),
   mask |-> blendMask(source.mask, target.mask, factor),
   heightBlend |->
     blendHeightBlend(source.heightBlend, target.heightBlend, factor),
   blendMode |-> pick(source.blendMode, target.blendMode, factor)]

\* applyLayerOpacity
applyLayerOpacity(layer, opacity) ==
  IF lessEq(R(99, 100), opacity) THEN layer
  ELSE [layer EXCEPT
          !.mask = Some([Nullish(layer.mask, NoMask) EXCEPT
                           !.constantOpacity = Some(opacity)])]

\* blendLayerConfigs
blendLayerConfigs(sourceLayers, targetLayers, factor) ==
  [i \in 1..(IF Len(sourceLayers) > Len(targetLayers)
             THEN Len(sourceLayers) ELSE Len(targetLayers)) |->
     IF i > Len(sourceLayers)
     THEN applyLayerOpacity(targetLayers[i], factor)
     ELSE IF i > Len(targetLayers)
     THEN applyLayerOpacity(sourceLayers[i], oneMinus(factor))
     ELSE blendSingleLayerConfig(sourceLayers[i], targetLayers[i], factor)]

\* Math.max(0, Math.min(1, factor))
clampFactor(factor) == max(float(0), min(float(1), factor))

\* updateBlendedLayers, with the fields as they are when it is called
updateBlendedLayers(sourceLayers, targetLayers, factor) ==
  \E blendedLayers \in
       {blendLayerConfigs(sourceLayers, targetLayers, factor)} :
    /\ layers' = blendedLayers
    /\ setupMaterial(blendedLayers)
    /\ needsUpdate' = TRUE

\* completeTransition() that leaves the source layers as they were
C15_completeKeepsSource ==
  /\ dyn' = [dyn EXCEPT !.transitionFactor = float(0),
                        !.transitionState = "idle"]
  /\ layers' = dyn.targetLayers
  /\ setupMaterial(dyn.targetLayers)
  /\ needsUpdate' = TRUE

\* completeTransition()
completeTransition ==
  /\ dyn' = [dyn EXCEPT !.sourceLayers = dyn.targetLayers,
                        !.transitionFactor = float(0),
                        !.transitionState = "idle"]
  /\ layers' = dyn.targetLayers
  /\ setupMaterial(dyn.targetLayers)
  /\ needsUpdate' = TRUE

\* new DynamicLayeredMaterial({layers, autoUpdate})
InitDynamic ==
  /\ layers \in SourceStacks
  /\ pt = PointSlope
  /\ \E layerBlend \in {buildLayerBlending(layers, pt)} :
       /\ colorNode = layerBlend.color
       /\ normalNode = layerBlend.normal
       /\ roughnessNode = layerBlend.roughness
       /\ metalnessNode = layerBlend.metalness
       /\ aoNode = layerBlend.ao
  /\ needsUpdate = FALSE
  /\ probe = Idle
  /\ variant = Absent
  /\ listeners = <<>>
  /\ invoked = <<>>
  /\ polled = Absent
  /\ decal = Absent
  /\ clock = 0
  /\ \E autoUpdate \in BOOLEAN :
       dyn = [sourceLayers |-> layers,
              targetLayers |-> <<>>,
              transitionFactor |-> float(0),
              transitionState |-> "idle",
              transitionSpeed |-> float(1),
              autoUpdate |-> autoUpdate]
  /\ began = <<>>

\* the layers a transition that begins now started from
beginning ==
  IF dyn.transitionState = "idle" THEN layers ELSE began

StartTransition ==
  \E targetLayers \in TargetStacks, transitionSpeed \in Speeds :
    /\ dyn' = [dyn EXCEPT
                 !.targetLayers = targetLayers,
                 !.transitionState = "transitioning",
                 !.transitionSpeed =
                    IF transitionSpeed # None THEN transitionSpeed[1] ELSE @]
    /\ began' = beginning
    /\ UNCHANGED <<layers, colorNode, normalNode, roughnessNode,
                   metalnessNode, aoNode, needsUpdate, pt, probe,
                   variantVars, decalVars>>

SetTransition ==
  \E targetLayers \in TargetStacks, factor \in Factors :
    /\ dyn' = [dyn EXCEPT !.targetLayers = targetLayers,
                          !.transitionFactor = clampFactor(factor),
                          !.transitionState = "transitioning"]
    /\ updateBlendedLayers(dyn.sourceLayers, targetLayers,
                           clampFactor(factor))
    /\ began' = beginning
    /\ UNCHANGED <<pt, probe, variantVars, decalVars>>

Update ==
  \E deltaTime \in DeltaTimes :
    IF ~dyn.autoUpdate \/ dyn.transitionState # "transitioning"
    THEN UNCHANGED vars
    ELSE \E advanced \in
              {add(dyn.transitionFactor, mul(deltaTime, dyn.transitionSpeed))} :
           IF lessEq(float(1), advanced)
           THEN /\ completeTransition
                /\ began' = <<>>
                /\ UNCHANGED <<pt, probe, variantVars, decalVars>>
           ELSE /\ dyn' = [dyn EXCEPT !.transitionFactor = advanced]
                /\ updateBlendedLayers(dyn.sourceLayers, dyn.targetLayers,
                                       advanced)
                /\ UNCHANGED <<began, pt, probe, variantVars, decalVars>>

CompleteTransition ==
  /\ completeTransition
  /\ began' = <<>>
  /\ UNCHANGED <<pt, probe, variantVars, decalVars>>

CancelTransition ==
  /\ layers' = dyn.sourceLayers
  /\ dyn' = [dyn EXCEPT !.targetLayers = <<>>,
                        !.transitionFactor = float(0),
                        !.transitionState = "idle"]
  /\ setupMaterial(dyn.sourceLayers)
  /\ needsUpdate' = TRUE
  /\ began' = <<>>
  /\ UNCHANGED <<pt, probe, variantVars, decalVars>>

\* the calls explored edit the stack once, between two transitions
Editable == dyn.transitionState = "idle" /\ layers = dyn.sourceLayers

\* the mutators inherited from LayeredMaterial write this.layers only
DynamicAddLayer ==
  \E config \in {LBlue} :
    /\ Editable
    /\ Len(layers) < MaxDynamicLayers
    /\ layers' = Append(layers, config)
    /\ setupMaterial(Append(layers, config))
    /\ needsUpdate' = TRUE
    /\ UNCHANGED <<pt, probe, variantVars, decalVars, dynamicVars>>

DynamicRemoveLayer ==
  \E index \in 0..MaxDynamicLayers :
    /\ Editable
    /\ layers' = splice(layers, index, 1, <<>>)
    /\ setupMaterial(splice(layers, index, 1, <<>>))
    /\ needsUpdate' = TRUE
    /\ UNCHANGED <<pt, probe, variantVars, decalVars, dynamicVars>>

DynamicUpdateLayer ==
  \E index \in 0..MaxDynamicLayers, config \in BaseUpdateSet :
    IF index >= Len(layers)
    THEN UNCHANGED vars
    ELSE \E updated \in {[layers EXCEPT
                   ![index + 1] = mergeLayer(layers[index + 1], config)]} :
           /\ Editable
           /\ layers' = updated
           /\ setupMaterial(updated)
           /\ needsUpdate' = TRUE
           /\ UNCHANGED <<pt, probe, variantVars, decalVars, dynamicVars>>

NextDynamic ==
  \/ StartTransition
  \/ SetTransition
  \/ Update
  \/ CompleteTransition
  \/ CancelTransition
  \/ DynamicAddLayer
  \/ DynamicRemoveLayer
  \/ DynamicUpdateLayer

SpecDynamic == InitDynamic /\ [][NextDynamic]_vars

\* the animation loop keeps calling update(deltaTime)
FairSpecDynamic == SpecDynamic /\ WF_vars(Update)
(***************************************************************************)
(* DecalLayeredMaterial: decals and damages on top of the layers           *)
(***************************************************************************)
\* the lists are explored up to these lengths
MaxActiveDecals == 2

MaxActiveDamages == 1

\* what addDecal is called with: a sticker that stays, and a splash that
\* lives one second and names no projection
DecalInputs ==
  {[projection |-> Some("sphere"),
    position |-> vec3(float(0), float(0), float(0)),
    size |-> vec3(float(24), float(24), float(24)),
    layer |-> LRust, priority |-> 1, lifetime |-> None],
   [projection |-> None,
    position |-> vec3(float(0), float(0), float(0)),
    size |-> vec3(float(24), float(24), float(24)),
    layer |-> LBlue, priority |-> 2, lifetime |-> Some(float(1))]}

\* what addDamage is called with: a dent of intensity 2 that heals, and a
\* permanent one
DamageInputs ==
  {[type |-> "dent", position |-> vec3(float(0), float(0), float(0)),
    radius |-> float(24), intensity |-> float(2), direction |-> None,
    layer |-> LRust, permanent |-> permanent, healRate |-> Some(float(1))] :
     permanent \in BOOLEAN}

\* options.decalSystem, and the partial configs setDecalSystemConfig is
\* called with (a key the object does not have is None)
DecalSystems ==
  {[maxDecals |-> Some(1), maxDamages |-> Some(1)],
   [maxDecals |-> Some(0), maxDamages |-> Some(0)]}

PartialConfigs == {[maxDecals |-> Some(0), maxDamages |-> None]}

UpdateDeltas == {R(1, 2), float(1)}

\* the instants the calls are made at
Instants == {1000, 2000}

\* the ids of the entries of a list
idsOf(entries) == {entries[i].id : i \in 1..Len(entries)}

\* the ids are opaque unique strings. The model names the entries of a list
\* 1, 2, ... in the order they were added, among the entries present: a call
\* that removes entries leaves the others named by their rank
ranked(entries) ==
  [i \in 1..Len(entries) |->
     [entries[i] EXCEPT
        !.id = Cardinality({j \in 1..Len(entries) :
                              entries[j].id <= entries[i].id})]]

\* the id of a new entry: one no entry of the list has
freshId(entries) ==
  CHOOSE id \in 1..(Len(entries) + 1) :
    /\ id \notin idsOf(entries)
    /\ \A lower \in 1..(id - 1) : lower \in idsOf(entries)

\* the decal addDecal builds from its argument
newDecal(decalConfig, id, now) ==
  [projection |-> IF decalConfig.projection # None
                  THEN decalConfig.projection[1] ELSE "planar",
   position |-> decalConfig.position,
   size |-> decalConfig.size,
   layer |-> decalConfig.layer,
   priority |-> decalConfig.priority,
   lifetime |-> decalConfig.lifetime,
   fadeStartTime |-> IF decalConfig.lifetime # None
                        /\ decalConfig.lifetime[1] # float(0)
                     THEN Some(now) ELSE None,
   id |-> id]

\* the damage addDamage builds from its argument
newDamage(damageConfig, id) ==
  [type |-> damageConfig.type,
   position |-> damageConfig.position,
   radius |-> damageConfig.radius,
   intensity |-> max(float(0), min(float(1), damageConfig.intensity)),
   direction |-> damageConfig.direction,
   layer |-> damageConfig.layer,
   permanent |-> damageConfig.permanent,
   healRate |-> damageConfig.healRate,
   id |-> id]

\* decal.fadeStartTime || Date.now()
fadeStartOrNow(d, now) ==
  IF d.fadeStartTime # None /\ d.fadeStartTime[1] # 0
  THEN d.fadeStartTime[1] ELSE now

\* the reduce of removeOldestDecal, from the array index given on
RECURSIVE oldestIndex(_, _, _, _)
oldestIndex(decals, index, oldest, now) ==
  IF index >= Len(decals) THEN oldest
  ELSE oldestIndex(decals, index + 1,
                   IF fadeStartOrNow(decals[index + 1], now)
                        < fadeStartOrNow(decals[oldest + 1], now)
                   THEN index ELSE oldest,
                   now)

removeOldestDecal(decals, now) ==
  IF Len(decals) = 0 THEN decals
  ELSE splice(decals, oldestIndex(decals, 0, 0, now), 1, <<>>)

removeOldestDamage(damages) ==
  IF Len(damages) = 0 THEN damages ELSE Tail(damages)

\* the index of the entry a stable sort by falling priority puts first
firstByPriority(decals) ==
  CHOOSE i \in 1..Len(decals) :
    /\ \A j \in 1..Len(decals) : decals[j].priority <= decals[i].priority
    /\ \A j \in 1..(i - 1) : decals[j].priority < decals[i].priority

\* addDecal that leaves the decals in the order they were pushed
C27_unsorted(decals) == decals

\* this._decals.sort((a, b) => b.priority - a.priority)
RECURSIVE sortByPriority(_)
sortByPriority(decals) ==
  IF decals = <<>> THEN <<>>
  ELSE CHOOSE r \in
         {<<decals[i]>> \o sortByPriority(splice(decals, i - 1, 1, <<>>)) :
            i \in {firstByPriority(decals)}} : TRUE

\* the decals addDecal leaves
decalsAfterAdd(decals, maxDecals, added, now) ==
  sortByPriority(
    Append(IF Len(decals) >= maxDecals
           THEN removeOldestDecal(decals, now) ELSE decals,
           added))

\* maxDamages || 30
maxDamagesOr30(config) ==
  IF config.maxDamages = 0 THEN 30 ELSE config.maxDamages

\* the damages addDamage leaves
damagesAfterAdd(damages, config, damage) ==
  Append(IF Len(damages) >= maxDamagesOr30(config)
         THEN removeOldestDamage(damages) ELSE damages,
         damage)

\* findIndex(entry => entry.id === id), -1 when there is none
findIndex(entries, id) ==
  IF id \in idsOf(entries)
  THEN (CHOOSE i \in 1..Len(entries) :
          /\ entries[i].id = id
          /\ \A j \in 1..(i - 1) : entries[j].id # id) - 1
  ELSE -1

\* updateDecalLifetimes that finds no lifetime run out
C26_neverExpired(d, currentTime) == FALSE

\* a decal whose lifetime has run out at currentTime
expired(d, currentTime) ==
  /\ hasLifetimeFade(d)
  /\ lessEq(d.lifetime[1], R(currentTime - d.fadeStartTime[1], 1000))

\* updateDecalLifetimes: the decals it leaves
RECURSIVE updateDecalLifetimes(_, _)
updateDecalLifetimes(decals, currentTime) ==
  IF decals = <<>> THEN <<>>
  ELSE (IF expired(Head(decals), currentTime) THEN <<>>
        ELSE <<Head(decals)>>)
         \o updateDecalLifetimes(Tail(decals), currentTime)

\* !damage.permanent && damage.healRate
heals(damage) ==
  /\ ~damage.permanent
  /\ damage.healRate # None
  /\ damage.healRate[1] # float(0)

\* Math.max(0, damage.intensity - damage.healRate * deltaTime)
healed(damage, deltaTime) ==
  [damage EXCEPT
     !.intensity = max(float(0), sub(damage.intensity,
                                     mul(damage.healRate[1], deltaTime)))]

\* what the loop of updateDamageHealing leaves of one damage
healedOrGone(damage, deltaTime) ==
  IF ~heals(damage) THEN <<damage>>
  ELSE IF lessEq(healed(damage, deltaTime).intensity, float(0)) THEN <<>>
       ELSE <<healed(damage, deltaTime)>>

\* updateDamageHealing: the damages it leaves
RECURSIVE updateDamageHealing(_, _)
updateDamageHealing(damages, deltaTime) ==
  IF damages = <<>> THEN <<>>
  ELSE healedOrGone(Head(damages), deltaTime)
         \o updateDamageHealing(Tail(damages), deltaTime)

\* updateDamageHealing: whether it asks for an update
healingNeedsUpdate(damages) ==
  \E i \in 1..Len(damages) : heals(damages[i])

\* { ...config, ...partial }, for the keys the calls explored set
spreadConfig(config, partial) ==
  [config EXCEPT
     !.maxDecals = IF partial.maxDecals # None
                   THEN partial.maxDecals[1] ELSE @,
     !.maxDamages = IF partial.maxDamages # None
                    THEN partial.maxDamages[1] ELSE @]

\* the defaults the constructor spreads options.decalSystem over
defaultDecalSystem ==
  [maxDecals |-> 50, maxDamages |-> 30, decalFadeTime |-> float(10),
   damageHealRate |-> R(1, 10), useWorldSpace |-> TRUE,
   enableAtlas |-> FALSE]

\* the private fields the field initialisers and the constructor body set
newDecalMaterial(decalSystem) ==
  [kind |-> "DecalLayeredMaterial",
   decals |-> <<>>,
   damages |-> <<>>,
   config |-> spreadConfig(defaultDecalSystem, decalSystem),
   lastUpdateTime |-> 0,
   updateInterval |-> 100]

\* the blends buildLayerBlending makes, in the order it makes them: the
\* layers after the first, then the damages, then the decals; each with the
\* layer it samples, its mask and the config it blends under
layerBlends(ls, p) ==
  [i \in 1..(Len(ls) - 1) |->
     [layer |-> ls[i + 1], mask |-> MaskGenerator_generate(ls[i + 1], p),
      config |-> ls[i + 1]]]

damageBlends(damages, p) ==
  [i \in 1..Len(damages) |->
     [layer |-> damages[i].layer, mask |-> calculateDamageMask(damages[i], p),
      config |-> damages[i].layer]]

decalBlends(decals, useWorldSpace, p) ==
  [i \in 1..Len(decals) |->
     [layer |-> decals[i].layer,
      mask |-> calculateDecalMask(decals[i], useWorldSpace, p),
      config |-> decalConfigWithBlend(decals[i])]]

RECURSIVE blendAll(_, _, _, _)
blendAll(result, blends, i, p) ==
  IF i <= Len(blends)
  THEN blendAll(LayerBlender_blend(result, sampleLayer(blends[i].layer, p),
                                   blends[i].mask, blends[i].config, p),
                blends, i + 1, p)
  ELSE result

\* the overridden buildLayerBlending, as the one chain of blends it is
Decal_blendChain(ls, damages, decals, useWorldSpace, p) ==
  blendAll(IF Len(ls) = 0 THEN getDefaultLayer ELSE sampleLayer(ls[1], p),
           layerBlends(ls, p) \o damageBlends(damages, p)
             \o decalBlends(decals, useWorldSpace, p),
           1, p)

\* the chain is the composite of super's composite, applyDamages and
\* applyDecals: an invariant of SpecFn, over its composites with damages and
\* decals
Decal_blendChainIsBuild ==
  (probe.op = "decalComposite" /\ probe.out # None) =>
    probe.out[1] = Decal_blendChain(probe.ls, probe.damages, probe.decals,
                                    probe.useWorldSpace, pt)

\* updateDecalDamageSystem: setupMaterial() through the overridden
\* buildLayerBlending, on the lists and the config given, then the flag
updateDecalDamageSystem(damages, decals, config) ==
  /\ \E layerBlend \in
         {Decal_blendChain(layers, damages, decals, config.useWorldSpace,
                           [pt EXCEPT !.now = clock])} :
       /\ colorNode' = layerBlend.color
       /\ normalNode' = layerBlend.normal
       /\ roughnessNode' = layerBlend.roughness
       /\ metalnessNode' = layerBlend.metalness
       /\ aoNode' = layerBlend.ao
  /\ needsUpdate' = TRUE

\* a DecalLayeredMaterial over one layer, as the statements of its
\* constructor leave it
InitDecal ==
  /\ layers = <<LRed>>
  /\ pt = PointSlope
  /\ \E layerBlend \in {buildLayerBlending(layers, pt)} :
       /\ colorNode = layerBlend.color
       /\ normalNode = layerBlend.normal
       /\ roughnessNode = layerBlend.roughness
       /\ metalnessNode = layerBlend.metalness
       /\ aoNode = layerBlend.ao
  /\ needsUpdate = FALSE
  /\ probe = Idle
  /\ variant = Absent
  /\ listeners = <<>>
  /\ invoked = <<>>
  /\ polled = Absent
  /\ dyn = Absent
  /\ began = <<>>
  /\ \E decalSystem \in DecalSystems : decal = newDecalMaterial(decalSystem)
  /\ clock = 1000

addDecal ==
  \E decalConfig \in DecalInputs :
    \E decals \in
        {ranked(decalsAfterAdd(decal.decals, decal.config.maxDecals,
                               newDecal(decalConfig, freshId(decal.decals),
                                        clock),
                               clock))} :
      /\ Len(decals) <= MaxActiveDecals
      /\ decal' = [decal EXCEPT !.decals = decals]
      /\ updateDecalDamageSystem(decal.damages, decals, decal.config)
      /\ UNCHANGED <<layers, pt, probe, variantVars, dynamicVars, clock>>

addDamage ==
  \E damageConfig \in DamageInputs :
    \E damages \in
        {ranked(damagesAfterAdd(decal.damages, decal.config,
                                newDamage(damageConfig,
                                          freshId(decal.damages))))} :
      /\ Len(damages) <= MaxActiveDamages
      /\ decal' = [decal EXCEPT !.damages = damages]
      /\ updateDecalDamageSystem(damages, decal.decals, decal.config)
      /\ UNCHANGED <<layers, pt, probe, variantVars, dynamicVars, clock>>

removeDecal ==
  \E id \in 1..(MaxActiveDecals + 1) :
    \E index \in {findIndex(decal.decals, id)} :
      IF index > -1
      THEN \E decals \in {ranked(splice(decal.decals, index, 1, <<>>))} :
             /\ decal' = [decal EXCEPT !.decals = decals]
             /\ updateDecalDamageSystem(decal.damages, decals, decal.config)
             /\ UNCHANGED <<layers, pt, probe, variantVars, dynamicVars,
                            clock>>
      ELSE UNCHANGED vars

removeDamage ==
  \E id \in 1..(MaxActiveDamages + 1) :
    \E index \in {findIndex(decal.damages, id)} :
      IF index > -1
      THEN \E damages \in {ranked(splice(decal.damages, index, 1, <<>>))} :
             /\ decal' = [decal EXCEPT !.damages = damages]
             /\ updateDecalDamageSystem(damages, decal.decals, decal.config)
             /\ UNCHANGED <<layers, pt, probe, variantVars, dynamicVars,
                            clock>>
      ELSE UNCHANGED vars

\* update(deltaTime), at the instant the clock shows
Decal_update ==
  \E deltaTime \in UpdateDeltas :
    IF decal.lastUpdateTime + decal.updateInterval > clock
    THEN UNCHANGED vars
    ELSE \E decals \in {ranked(updateDecalLifetimes(decal.decals, clock))} :
           IF decals # decal.decals \/ healingNeedsUpdate(decal.damages)
           THEN \E damages \in
                    {ranked(updateDamageHealing(decal.damages,
                                                deltaTime))} :
                  /\ decal' = [decal EXCEPT !.decals = decals,
                                            !.damages = damages,
                                            !.lastUpdateTime = clock]
                  /\ updateDecalDamageSystem(damages, decals, decal.config)
                  /\ UNCHANGED <<layers, pt, probe, variantVars, dynamicVars,
                                 clock>>
           ELSE UNCHANGED vars

clearDecals ==
  /\ decal' = [decal EXCEPT !.decals = <<>>]
  /\ updateDecalDamageSystem(decal.damages, <<>>, decal.config)
  /\ UNCHANGED <<layers, pt, probe, variantVars, dynamicVars, clock>>

clearDamages ==
  /\ decal' = [decal EXCEPT !.damages = <<>>]
  /\ updateDecalDamageSystem(<<>>, decal.decals, decal.config)
  /\ UNCHANGED <<layers, pt, probe, variantVars, dynamicVars, clock>>

setDecalSystemConfig ==
  \E partial \in PartialConfigs :
    \E config \in {spreadConfig(decal.config, partial)} :
      /\ decal' = [decal EXCEPT !.config = config]
      /\ updateDecalDamageSystem(decal.damages, decal.decals, config)
      /\ UNCHANGED <<layers, pt, probe, variantVars, dynamicVars, clock>>

\* time passes between two calls
Tick ==
  /\ \E later \in Instants :
       /\ later > clock
       /\ clock' = later
  /\ UNCHANGED <<layers, colorNode, normalNode, roughnessNode, metalnessNode,
                 aoNode, needsUpdate, pt, probe, variantVars, dynamicVars,
                 decal>>

NextDecal ==
  \/ addDecal
  \/ addDamage
  \/ removeDecal
  \/ removeDamage
  \/ Decal_update
  \/ clearDecals
  \/ clearDamages
  \/ setDecalSystemConfig
  \/ Tick

SpecDecal == InitDecal /\ [][NextDecal]_vars

\* a DecalLayeredMaterial with room for two decals
InitDecalPair ==
  /\ layers = <<LRed>>
  /\ pt = PointSlope
  /\ \E layerBlend \in {buildLayerBlending(layers, pt)} :
       /\ colorNode = layerBlend.color
       /\ normalNode = layerBlend.normal
       /\ roughnessNode = layerBlend.roughness
       /\ metalnessNode = layerBlend.metalness
       /\ aoNode = layerBlend.ao
  /\ needsUpdate = FALSE
  /\ probe = Idle
  /\ variant = Absent
  /\ listeners = <<>>
  /\ invoked = <<>>
  /\ polled = Absent
  /\ dyn = Absent
  /\ began = <<>>
  /\ decal = newDecalMaterial([maxDecals |-> Some(MaxActiveDecals),
                               maxDamages |-> Some(MaxActiveDamages)])
  /\ clock = 1000

SpecDecalPair == InitDecalPair /\ [][NextDecal]_vars

\* update(deltaTime) is called from the animation loop, again and again,
\* while time passes
FairSpecDecalPair ==
  SpecDecalPair /\ WF_vars(Decal_update) /\ WF_vars(Tick)

(***************************************************************************)
(* new DecalLayeredMaterial(options)                                       *)
(***************************************************************************)
\* options.layers has at most this many layers
MaxNewLayers == 2

\* the values of options.layers: undefined counts as the empty list
NewStacks ==
  UNION {[1..n -> {LRed, LBlue, LDry}] : n \in 0..MaxNewLayers}

\* the values of options.decalSystem (a key the object does not have is None)
NewDecalSystems ==
  {[maxDecals |-> d, maxDamages |-> g] :
     d \in {None, Some(0), Some(2)}, g \in {None, Some(1)}}

\* _decals and _damages as the instance has them while super(options) runs:
\* the initialisers of the fields of a derived class run when super()
\* returns, so neither list is set yet (None)
fieldsDuringSuper == [decals |-> None, damages |-> None]

\* applyDamages reads this._damages.length and applyDecals reads
\* this._decals.length: a TypeError on a list that is not set
readsUndefined(fields) == fields.damages = None \/ fields.decals = None

\* no material yet, and the call new DecalLayeredMaterial(options) to make
InitNewDecal ==
  /\ layers = Absent
  /\ colorNode = Absent
  /\ normalNode = Absent
  /\ roughnessNode = Absent
  /\ metalnessNode = Absent
  /\ aoNode = Absent
  /\ needsUpdate = FALSE
  /\ pt = PointSlope
  /\ probe = Idle
  /\ variant = Absent
  /\ listeners = <<>>
  /\ invoked = <<>>
  /\ polled = Absent
  /\ dyn = Absent
  /\ began = <<>>
  /\ \E ls \in NewStacks, decalSystem \in NewDecalSystems :
       decal = [kind |-> "new",
                options |-> [layers |-> ls, decalSystem |-> decalSystem]]
  /\ clock = 1000

\* the constructor: super(options), which sets the layers and runs
\* setupMaterial() through the overridden buildLayerBlending, then the field
\* initialisers and the body. An exception in super(options) ends it, and
\* the caller gets no material
Construct ==
  /\ decal.kind = "new"
  /\ IF readsUndefined(fieldsDuringSuper)
     THEN /\ decal' = [kind |-> "TypeError", options |-> decal.options]
          /\ UNCHANGED <<layers, colorNode, normalNode, roughnessNode,
                         metalnessNode, aoNode>>
     ELSE /\ decal' = newDecalMaterial(decal.options.decalSystem)
          /\ layers' = decal.options.layers
          /\ \E layerBlend \in
                 {Decal_buildLayerBlending(
                    decal.options.layers, fieldsDuringSuper.damages[1],
                    fieldsDuringSuper.decals[1],
                    defaultDecalSystem.useWorldSpace, pt)} :
               /\ colorNode' = layerBlend.color
               /\ normalNode' = layerBlend.normal
               /\ roughnessNode' = layerBlend.roughness
               /\ metalnessNode' = layerBlend.metalness
               /\ aoNode' = layerBlend.ao
  /\ UNCHANGED <<needsUpdate, pt, probe, variantVars, dynamicVars, clock>>

NextNewDecal == Construct

SpecNewDecal == InitNewDecal /\ [][NextNewDecal]_vars

(***************************************************************************)
(* UniformDynamicMaterial: roughness, metalness and tint as uniforms       *)
(***************************************************************************)
\* the layer lists are explored up to this length
MaxUniformLayers == 2

\* options.layers
UniformStacks == {<<LDry>>, <<>>}

\* the layers the inherited mutators are given
UniformLayerSet == {LWet}

UniformUpdateSet == {[roughness |-> Some(R(1, 4))]}

\* what setTransitionFast is called with
UniformTargets == {<<LWet>>, <<>>}

FastFactors == {R(-1, 2), R(1, 2), R(3, 2)}

\* layer.roughness ?? 0.5, layer.metalness ?? 0.0 and the colorTint or
\* { r: 1, g: 1, b: 1 } of the first layer of a list, {} when it is empty
roughnessOrHalf(ls) ==
  IF Len(ls) = 0 THEN R(1, 2) ELSE Nullish(ls[1].roughness, R(1, 2))

metalnessOrZero(ls) ==
  IF Len(ls) = 0 THEN float(0) ELSE Nullish(ls[1].metalness, float(0))

colorTintOrOne(ls) ==
  IF Len(ls) = 0 THEN vec3(float(1), float(1), float(1))
  ELSE Nullish(ls[1].colorTint, vec3(float(1), float(1), float(1)))

\* a + (b - a) * t
Uniform_lerp(a, b, t) == add(a, mul(sub(b, a), t))

\* the values setTransitionFast gives the five uniforms
uniformValues(sourceLayers, targetLayers, factor) ==
  [roughness |-> Uniform_lerp(roughnessOrHalf(sourceLayers),
                              roughnessOrHalf(targetLayers), factor),
   metalness |-> Uniform_lerp(metalnessOrZero(sourceLayers),
                              metalnessOrZero(targetLayers), factor),
   colorTint |->
     vec3(Uniform_lerp(colorTintOrOne(sourceLayers)[1],
                       colorTintOrOne(targetLayers)[1], factor),
          Uniform_lerp(colorTintOrOne(sourceLayers)[2],
                       colorTintOrOne(targetLayers)[2], factor),
          Uniform_lerp(colorTintOrOne(sourceLayers)[3],
                       colorTintOrOne(targetLayers)[3], factor))]

\* the private fields as the constructor leaves them. roughnessBound and
\* metalnessBound: the output is the uniform node. tinted: the node that
\* colorNode multiplies by the tint uniforms, None when it is no product
newUniformMaterial(ls, composite) ==
  [kind |-> "UniformDynamicMaterial",
   sourceLayers |-> ls,
   targetLayers |-> <<>>,
   transitionFactor |-> float(0),
   uniforms |-> [roughness |-> roughnessOrHalf(ls),
                 metalness |-> metalnessOrZero(ls),
                 colorTint |-> colorTintOrOne(ls)],
   roughnessBound |-> TRUE,
   metalnessBound |-> TRUE,
   tinted |-> Some(composite.color)]

\* new UniformDynamicMaterial(options): super(options), the uniforms, then
\* _setupWithUniforms()
InitUniform ==
  /\ layers \in UniformStacks
  /\ pt = PointSlope
  /\ \E layerBlend \in {buildLayerBlending(layers, pt)} :
       /\ dyn = newUniformMaterial(layers, layerBlend)
       /\ colorNode = vmul(layerBlend.color, colorTintOrOne(layers))
       /\ normalNode = layerBlend.normal
       /\ roughnessNode = roughnessOrHalf(layers)
       /\ metalnessNode = metalnessOrZero(layers)
       /\ aoNode = layerBlend.ao
  /\ needsUpdate = TRUE
  /\ probe = Idle
  /\ variant = Absent
  /\ listeners = <<>>
  /\ invoked = <<>>
  /\ polled = Absent
  /\ began = <<>>
  /\ decal = Absent
  /\ clock = 0

\* setTransitionFast(targetLayers, factor): the uniforms take new values,
\* and with them the outputs that are these uniforms
setTransitionFast ==
  \E targetLayers \in UniformTargets, factor \in FastFactors :
    \E values \in {uniformValues(dyn.sourceLayers, targetLayers, factor)} :
      /\ dyn' = [dyn EXCEPT
                   !.targetLayers = targetLayers,
                   !.transitionFactor = max(float(0), min(float(1), factor)),
                   !.uniforms = values]
      /\ roughnessNode' = IF dyn.roughnessBound THEN values.roughness
                          ELSE roughnessNode
      /\ metalnessNode' = IF dyn.metalnessBound THEN values.metalness
                          ELSE metalnessNode
      /\ colorNode' = IF dyn.tinted # None
                      THEN vmul(dyn.tinted[1], values.colorTint)
                      ELSE colorNode
      /\ UNCHANGED <<layers, normalNode, aoNode, needsUpdate, pt, probe,
                     variantVars, began, decalVars>>

\* completeTransition()
Uniform_completeTransition ==
  /\ dyn' = [dyn EXCEPT !.sourceLayers = dyn.targetLayers,
                        !.transitionFactor = float(0)]
  /\ UNCHANGED <<layers, colorNode, normalNode, roughnessNode, metalnessNode,
                 aoNode, needsUpdate, pt, probe, variantVars, began,
                 decalVars>>

\* the mutators are LayeredMaterial's: each ends in setupMaterial(), which
\* assigns the five outputs the nodes of the composite
rebuilt == [dyn EXCEPT !.roughnessBound = FALSE,
                       !.metalnessBound = FALSE,
                       !.tinted = None]

Uniform_addLayer ==
  \E config \in UniformLayerSet :
    /\ Len(layers) < MaxUniformLayers
    /\ layers' = Append(layers, config)
    /\ setupMaterial(Append(layers, config))
    /\ needsUpdate' = TRUE
    /\ dyn' = rebuilt
    /\ UNCHANGED <<pt, probe, variantVars, began, decalVars>>

Uniform_removeLayer ==
  \E index \in 0..MaxUniformLayers :
    \E left \in {layersAfterRemove(layers, index)} :
      /\ layers' = left
      /\ setupMaterial(left)
      /\ needsUpdate' = TRUE
      /\ dyn' = rebuilt
      /\ UNCHANGED <<pt, probe, variantVars, began, decalVars>>

Uniform_insertLayer ==
  \E index \in 0..MaxUniformLayers, config \in UniformLayerSet :
    \E left \in {layersAfterInsert(layers, index, config)} :
      /\ Len(layers) < MaxUniformLayers
      /\ layers' = left
      /\ setupMaterial(left)
      /\ needsUpdate' = TRUE
      /\ dyn' = rebuilt
      /\ UNCHANGED <<pt, probe, variantVars, began, decalVars>>

Uniform_moveLayer ==
  \E fromIndex \in 0..MaxUniformLayers, toIndex \in 0..MaxUniformLayers :
    IF returnsEarly(layers, fromIndex, toIndex)
    THEN UNCHANGED vars
    ELSE \E left \in {layersAfterMove(layers, fromIndex, toIndex)} :
           /\ layers' = left
           /\ setupMaterial(left)
           /\ needsUpdate' = TRUE
           /\ dyn' = rebuilt
           /\ UNCHANGED <<pt, probe, variantVars, began, decalVars>>

Uniform_swapLayers ==
  \E indexA \in 0..MaxUniformLayers, indexB \in 0..MaxUniformLayers :
    IF returnsEarly(layers, indexA, indexB)
    THEN UNCHANGED vars
    ELSE \E left \in {layersAfterSwap(layers, indexA, indexB)} :
           /\ layers' = left
           /\ setupMaterial(left)
           /\ needsUpdate' = TRUE
           /\ dyn' = rebuilt
           /\ UNCHANGED <<pt, probe, variantVars, began, decalVars>>

Uniform_updateLayer ==
  \E index \in 0..MaxUniformLayers, config \in UniformUpdateSet :
    IF throwsOnUpdate(layers, index)
    THEN UNCHANGED vars
    ELSE \E left \in {layersAfterUpdate(layers, index, config)} :
           /\ layers' = left
           /\ setupMaterial(left)
           /\ needsUpdate' = TRUE
           /\ dyn' = rebuilt
           /\ UNCHANGED <<pt, probe, variantVars, began, decalVars>>

NextUniform ==
  \/ setTransitionFast
  \/ Uniform_completeTransition
  \/ Uniform_addLayer
  \/ Uniform_removeLayer
  \/ Uniform_insertLayer
  \/ Uniform_moveLayer
  \/ Uniform_swapLayers
  \/ Uniform_updateLayer

SpecUniform == InitUniform /\ [][NextUniform]_vars

(***************************************************************************)
(* Two MaterialVariants of one base, and the arrays their callers hold     *)
(***************************************************************************)
\* the arrays of overrides: the preset both variants are constructed with,
\* another one that setOverrides is given, and the one getOverrides returned
\* last. A variant holds the name of an array, as the code holds a reference
PresetOverrides == <<[roughness |-> Some(R(1, 2))]>>

OtherOverrides == <<[roughness |-> Some(R(1, 4))]>>

\* what updateOverride is called with, and the element a caller writes into
\* an array that getOverrides returned
OverridePatches == {[metalness |-> Some(float(1))]}

\* { ...this._overrides[layerIndex], ...override }; an empty slot is <<>>
mergeOverride(existing, override) ==
  [f \in (DOMAIN existing) \cup (DOMAIN override) |->
     IF f \in DOMAIN override THEN override[f] ELSE existing[f]]

\* the array updateOverride(layerIndex, override) leaves: extended with
\* empty slots up to layerIndex, and the element replaced by the merge
overridesAfterUpdate(overrides, layerIndex, override) ==
  [i \in 1..(IF layerIndex >= Len(overrides) THEN layerIndex + 1
             ELSE Len(overrides)) |->
     IF i = layerIndex + 1
     THEN mergeOverride(IF i <= Len(overrides) THEN overrides[i] ELSE <<>>,
                        override)
     ELSE IF i <= Len(overrides) THEN overrides[i] ELSE <<>>]

\* the constructor, and onBaseLayersChanged: the layers merged from the base
\* layers and the array the variant refers to, and the outputs set up
variantOver(ref, baseLayers, arrays, flagged) ==
  CHOOSE r \in
    {[overrides |-> ref,
      layers |-> mergedLayers,
      outputs |-> materialOutputs(mergedLayers, VariantPoint),
      needsUpdate |-> flagged] :
       mergedLayers \in {mergeLayersWithOverrides(baseLayers, arrays[ref])}} :
    TRUE

\* a base with two layers, and two variants constructed with one preset
InitShared ==
  /\ layers = <<LRed, LBlue>>
  /\ pt = VariantPoint
  /\ \E layerBlend \in {buildLayerBlending(layers, pt)} :
       /\ colorNode = layerBlend.color
       /\ normalNode = layerBlend.normal
       /\ roughnessNode = layerBlend.roughness
       /\ metalnessNode = layerBlend.metalness
       /\ aoNode = layerBlend.ao
  /\ needsUpdate = FALSE
  /\ probe = Idle
  /\ dyn = Absent
  /\ began = <<>>
  /\ decal = Absent
  /\ clock = 0
  /\ listeners = <<>>
  /\ invoked = <<>>
  /\ polled = Absent
  /\ \E arrays \in {[presets |-> PresetOverrides, other |-> OtherOverrides,
                     returned |-> <<>>]} :
       variant = [kind |-> "MaterialVariants",
                  arrays |-> arrays,
                  first |-> variantOver("presets", layers, arrays, FALSE),
                  second |-> variantOver("presets", layers, arrays, FALSE)]

\* first.updateOverride(layerIndex, override): the array first refers to is
\* written, then first is merged again
UpdateOverride ==
  \E layerIndex \in 0..(MaxBaseLayers - 1), override \in OverridePatches :
    \E arrays \in
        {[variant.arrays EXCEPT
            ![variant.first.overrides] =
               overridesAfterUpdate(variant.arrays[variant.first.overrides],
                                    layerIndex, override)]} :
      /\ variant' = [variant EXCEPT
                       !.arrays = arrays,
                       !.first = variantOver(variant.first.overrides, layers,
                                             arrays, TRUE)]
      /\ UNCHANGED <<layers, colorNode, normalNode, roughnessNode,
                     metalnessNode, aoNode, needsUpdate, pt, probe,
                     dynamicVars, decalVars, listeners, invoked, polled>>

\* first.setOverrides(overrides), with one of the arrays the caller holds
SharedSetOverrides ==
  \E ref \in {"presets", "other"} :
    /\ variant' = [variant EXCEPT
                     !.first = variantOver(ref, layers, variant.arrays, TRUE)]
    /\ UNCHANGED <<layers, colorNode, normalNode, roughnessNode,
                   metalnessNode, aoNode, needsUpdate, pt, probe,
                   dynamicVars, decalVars, listeners, invoked, polled>>

\* returned = first.getOverrides(); returned[0] = override
EditReturned ==
  \E override \in OverridePatches :
    \E copy \in {variant.arrays[variant.first.overrides]} :
      /\ variant' = [variant EXCEPT
                       !.arrays.returned =
                          [i \in 1..(IF Len(copy) = 0 THEN 1 ELSE Len(copy)) |->
                             IF i = 1 THEN override ELSE copy[i]]]
      /\ UNCHANGED <<layers, colorNode, normalNode, roughnessNode,
                     metalnessNode, aoNode, needsUpdate, pt, probe,
                     dynamicVars, decalVars, listeners, invoked, polled>>

\* base.updateLayer(index, config), through the wrappers both variants
\* installed: the original, then onBaseLayersChanged of either variant
SharedBaseUpdateLayer ==
  \E index \in 0..(MaxBaseLayers - 1), config \in BaseUpdateSet :
    \E left \in {layersAfterUpdate(layers, index, config)} :
      /\ layers' = left
      /\ setupMaterial(left)
      /\ needsUpdate' = TRUE
      /\ variant' = [variant EXCEPT
                       !.first = variantOver(variant.first.overrides, left,
                                             variant.arrays, TRUE),
                       !.second = variantOver(variant.second.overrides, left,
                                              variant.arrays, TRUE)]
      /\ UNCHANGED <<pt, probe, dynamicVars, decalVars, listeners, invoked,
                     polled>>

NextShared ==
  \/ UpdateOverride
  \/ SharedSetOverrides
  \/ EditReturned
  \/ SharedBaseUpdateLayer

SpecShared == InitShared /\ [][NextShared]_vars

(***************************************************************************)
(* The pure functions, each applied to one drawn input.  probe holds the   *)
(* input and, once the function has been applied, its result in out.       *)
(***************************************************************************)
ScalarProbes ==
  {[op |-> "scalar", a |-> a, b |-> b, f |-> f, mode |-> m, out |-> None] :
     a \in Scalars, b \in Scalars, f \in Scalars, m \in ScalarBlendModes}

ColorProbes ==
  {[op |-> "color", a |-> a, b |-> b, f |-> f, mode |-> m, out |-> None] :
     a \in Colors, b \in Colors, f \in ColorFactors, m \in ColorBlendModes}

NormalProbes ==
  {[op |-> "normal", a |-> a, b |-> b, f |-> f, mode |-> m, out |-> None] :
     a \in UnitNormals, b \in UnitNormals, f \in NormalFactors,
     m \in NormalBlendModes}

FactorProbes ==
  {[op |-> "factor", base1 |-> sampleWithHeight(b1),
    top1 |-> sampleWithHeight(t1), base2 |-> sampleWithHeight(b2),
    top2 |-> sampleWithHeight(t2), mask |-> m, config |-> c, out |-> None] :
     b1 \in {R(1, 4), R(3, 4)}, t1 \in {R(1, 4), R(3, 4)},
     b2 \in {R(1, 4), R(3, 4)}, t2 \in {R(1, 4), R(3, 4)},
     m \in {R(1, 4), R(1, 2)}, c \in {LGrass, LRock}}

SampleProbes ==
  {[op |-> "sample", layer |-> l, out |-> None] : l \in ProbeLayers}

MaskProbes ==
  {[op |-> "mask", layer |-> l, out |-> None] : l \in MaskLayers}

DamageProbes ==
  {[op |-> "damage", damage |-> d, out |-> None] : d \in Damages}

DecalProbes ==
  {[op |-> "decal", decal |-> d, useWorldSpace |-> w, out |-> None] :
     d \in Decals, w \in BOOLEAN}

CompositeProbes ==
  {[op |-> "composite", ls |-> ls, out |-> None] : ls \in Stacks}

DecalCompositeProbes ==
  {[op |-> "decalComposite", ls |-> ls, damages |-> dm, decals |-> dc,
    useWorldSpace |-> w, out |-> None] :
     ls \in {<<>>, <<LGrass>>, <<LGrass, LRock>>},
     dm \in {<<>>, <<DFar>>, <<DNear>>, <<DNear, DFar>>},
     dc \in {<<>>, <<KFar>>, <<KNear>>}, w \in BOOLEAN}

\* clamp of a NaN is indeterminate in the shading language: a build may
\* return the NaN or either bound
saturateOutcomes(x) ==
  IF x = NaN THEN {NaN, float(0), float(1)} ELSE {x}

InitFn ==
  /\ layers = <<>>
  /\ pt \in Points
  /\ \E layerBlend \in {getDefaultLayer} :
       /\ colorNode = layerBlend.color
       /\ normalNode = layerBlend.normal
       /\ roughnessNode = layerBlend.roughness
       /\ metalnessNode = layerBlend.metalness
       /\ aoNode = layerBlend.ao
  /\ needsUpdate = FALSE
  /\ NoExtensions
  /\ \/ probe \in ScalarProbes
     \/ probe \in ColorProbes
     \/ probe \in NormalProbes
     \/ probe \in FactorProbes
     \/ probe \in SampleProbes
     \/ probe \in MaskProbes
     \/ probe \in DamageProbes
     \/ probe \in DecalProbes
     \/ probe \in CompositeProbes
     \/ probe \in DecalCompositeProbes

Pending(op) == probe.op = op /\ probe.out = None

Unchanged ==
  UNCHANGED <<layers, colorNode, normalNode, roughnessNode, metalnessNode,
              aoNode, needsUpdate, pt, extensionVars>>

ApplyScalarBlend ==
  /\ Pending("scalar")
  /\ probe' = [probe EXCEPT
       !.out = Some(ScalarBlender_blend(probe.a, probe.b, probe.f,
                                        probe.mode))]
  /\ Unchanged

ApplyColorBlend ==
  /\ Pending("color")
  /\ probe' = [probe EXCEPT
       !.out = Some(ColorBlender_blend(probe.a, probe.b, probe.f,
                                       probe.mode))]
  /\ Unchanged

ApplyNormalBlend ==
  /\ Pending("normal")
  /\ \E n \in normalizeOutcomes(
               NormalBlender_blended(probe.a, probe.b, probe.f, probe.mode,
                                     pt.dN)) :
       probe' = [probe EXCEPT !.out = Some(n)]
  /\ Unchanged

ApplyBlendFactor ==
  /\ Pending("factor")
  /\ probe' = [probe EXCEPT
       !.out = Some(<<calculateBlendFactor(probe.base1, probe.top1,
                                           probe.mask, probe.config),
                      calculateBlendFactor(probe.base2, probe.top2,
                                           probe.mask, probe.config)>>)]
  /\ Unchanged

ApplySampleLayer ==
  /\ Pending("sample")
  /\ probe' = [probe EXCEPT !.out = Some(sampleLayer(probe.layer, pt))]
  /\ Unchanged

ApplyMask ==
  /\ Pending("mask")
  /\ \E m \in saturateOutcomes(MaskGenerator_generate(probe.layer, pt)) :
       probe' = [probe EXCEPT !.out = Some(m)]
  /\ Unchanged

ApplyDamageMask ==
  /\ Pending("damage")
  /\ \E m \in saturateOutcomes(calculateDamageMask(probe.damage, pt)) :
       probe' = [probe EXCEPT !.out = Some(m)]
  /\ Unchanged

ApplyDecalMask ==
  /\ Pending("decal")
  /\ \E m \in saturateOutcomes(
               calculateDecalMask(probe.decal, probe.useWorldSpace, pt)) :
       probe' = [probe EXCEPT !.out = Some(m)]
  /\ Unchanged

ApplyComposite ==
  /\ Pending("composite")
  /\ probe' = [probe EXCEPT !.out = Some(buildLayerBlending(probe.ls, pt))]
  /\ Unchanged

ApplyDecalComposite ==
  /\ Pending("decalComposite")
  /\ probe' = [probe EXCEPT
       !.out = Some(Decal_buildLayerBlending(probe.ls, probe.damages,
                                             probe.decals,
                                             probe.useWorldSpace, pt))]
  /\ Unchanged

NextFn ==
  \/ ApplyScalarBlend
  \/ ApplyColorBlend
  \/ ApplyNormalBlend
  \/ ApplyBlendFactor
  \/ ApplySampleLayer
  \/ ApplyMask
  \/ ApplyDamageMask
  \/ ApplyDecalMask
  \/ ApplyComposite
  \/ ApplyDecalComposite

SpecFn == InitFn /\ [][NextFn]_vars

(***************************************************************************)
(* Properties                                                              *)
(***************************************************************************)
Applied(op) == probe.op = op /\ probe.out # None

\* the blend of layers 1..n of ls, written as a fold from the left:
\* fold(1) is the base layer's sample, fold(n) blends layer n onto fold(n-1)
RECURSIVE C1_fold(_, _, _)
C1_fold(ls, n, p) ==
  IF n = 1 THEN sampleLayer(ls[1], p)
  ELSE LayerBlender_blend(C1_fold(ls, n - 1, p), sampleLayer(ls[n], p),
                          MaskGenerator_generate(ls[n], p), ls[n], p)

\* C1: for a non-empty stack the composite is the left fold of the blend
\* over the layers in index order; the base layer is resolved with no mask
\* and no blending, every later layer is blended with its own mask and its
\* own blend modes, and a single layer's composite is its resolved sample.
C1_CompositeIsLeftFold ==
  (Applied("composite") /\ Len(probe.ls) > 0) =>
    /\ probe.out[1] = C1_fold(probe.ls, Len(probe.ls), pt)
    /\ Len(probe.ls) = 1 => probe.out[1] = sampleLayer(probe.ls[1], pt)

\* a three-layer stack whose base layer carries a mask and a blend mode and
\* whose upper layers changed the result
C1_Witness ==
  /\ Applied("composite")
  /\ Len(probe.ls) = 3
  /\ probe.ls[1].mask # None /\ probe.ls[1].blendMode # None
  /\ probe.ls[2] # probe.ls[3]
  /\ probe.out[1] # sampleLayer(probe.ls[1], pt)
  /\ probe.out[1] # sampleLayer(probe.ls[3], pt)

C2_DefaultSample ==
  [color |-> vec3(R(4, 5), R(4, 5), R(4, 5)),
   normal |-> vec3(float(0), float(0), float(1)),
   roughness |-> R(1, 2), metalness |-> float(0), ao |-> float(1),
   height |-> Some(R(1, 2))]

\* C2: with an empty layer stack the composite is the default sample with
\* all six fields defined (color 0.8, normal (0,0,1), roughness 0.5,
\* metalness 0, ao 1, height 0.5), at construction and after the last
\* layer has been removed.
C2_EmptyStackDefault ==
  layers = <<>> => buildLayerBlending(layers, pt) = C2_DefaultSample

\* C3: every layer mask, damage mask and decal mask lies in [0,1].
C3_MasksInUnit ==
  (Applied("mask") \/ Applied("damage") \/ Applied("decal")) =>
    InUnit(probe.out[1])

\* the mask as the product T * S * H * N with the configured ranges, the
\* defaults standing in only for a range that is not given
C4_reference(layer, p) ==
  IF layer.mask = None THEN float(1)
  ELSE LET m == layer.mask[1]
           T == IF m.map # None
                THEN texture(m.map[1], "uv")[channelIndex(Nullish(m.channel,
                                                                  "r"))]
                ELSE float(1)
           S == IF m.useSlope
                THEN smoothstep(Nullish(m.slopeMin, float(0)),
                                Nullish(m.slopeMax, float(1)),
                                dot(p.normalWorld, up))
                ELSE float(1)
           H == IF m.useHeight
                THEN smoothstep(Nullish(m.heightMin, float(0)),
                                Nullish(m.heightMax, float(10)),
                                p.positionWorld[2])
                ELSE float(1)
           N == IF m.useNoise THEN NoiseGenerator_generate(m, p) ELSE float(1)
           x == mul(mul(mul(T, S), H), N)
       IN  saturate(IF m.invert THEN oneMinus(x) ELSE x)

\* C4: the mask is clamp01(inv(T * S * H * N)) with exactly the configured
\* slopeMin, slopeMax, heightMin and heightMax; an unconfigured factor is 1
\* and a layer with no mask config has mask 1.
C4_MaskFormula ==
  Applied("mask") => probe.out[1] = C4_reference(probe.layer, pt)

\* C5: the source of a layer is chosen by the fixed priority extracted
\* material > triplanar > planar texture map > solid values.
C5_SourcePriority ==
  Applied("sample") =>
    probe.out[1] =
      (IF probe.layer.materialInput # None
       THEN MaterialExtractor_extractFromMaterial(probe.layer, pt)
       ELSE IF triplanarEnabled(probe.layer)
       THEN TriplanarSampler_sample(probe.layer, pt)
       ELSE IF probe.layer.map # None
       THEN TextureSampler_sample(probe.layer, pt)
       ELSE DefaultLayerFactory_create(probe.layer, pt))

\* an extracted material that also has a texture bundle and the triplanar
\* flag, resolved by the extractor
C5_Witness ==
  /\ Applied("sample")
  /\ probe.layer.materialInput # None
  /\ probe.layer.map # None
  /\ triplanarEnabled(probe.layer)
  /\ probe.out[1] # TriplanarSampler_sample(probe.layer, pt)
  /\ probe.out[1] # TextureSampler_sample(probe.layer, pt)

C6_allMasksZero(p) ==
  /\ \A i \in 1..Len(probe.damages) :
       calculateDamageMask(probe.damages[i], p) = float(0)
  /\ \A i \in 1..Len(probe.decals) :
       calculateDecalMask(probe.decals[i], probe.useWorldSpace, p) = float(0)

\* C6: blending with factor 0 returns the base unchanged in every channel
\* (color, normal, roughness, metalness, ao, height): damages and decals
\* whose masks are 0 leave the composite of the layer stack as it is.
C6_MaskZeroKeepsBase ==
  (/\ Applied("decalComposite")
   /\ Len(probe.damages) + Len(probe.decals) > 0
   /\ C6_allMasksZero(pt)) =>
    probe.out[1] = buildLayerBlending(probe.ls, pt)

C8_isUnit(v) ==
  /\ VFinite(v)
  /\ lessEq(R(9, 10), dot(v, v)) /\ lessEq(dot(v, v), R(11, 10))

\* C8: for all six normal blend modes, every factor in [0,1] and all unit
\* inputs, the blended normal is a unit vector.
C8_NormalUnit ==
  Applied("normal") => C8_isUnit(probe.out[1])

\* C9: with a colorTint the resolved color is the source color multiplied
\* per component by the tint as the final step, on every source path.
C9_TintIsFinalMultiply ==
  (Applied("sample") /\ probe.layer.colorTint # None) =>
    probe.out[1].color =
      vmul(sampleLayer([probe.layer EXCEPT !.colorTint = None], pt).color,
           probe.layer.colorTint[1])

C10_heightDifference(base, top) == sub(top.height[1], base.height[1])

\* C10: with heightBlend.enable the blend factor is the mask sharpened by
\* the two layers' heights, so equal masks with different height
\* differences give different factors.
C10_HeightBlendSharpens ==
  (/\ Applied("factor")
   /\ probe.config.heightBlend # None
   /\ probe.config.heightBlend[1].enable
   /\ C10_heightDifference(probe.base1, probe.top1)
        # C10_heightDifference(probe.base2, probe.top2)) =>
    probe.out[1][1] # probe.out[1][2]

\* the five outputs setupMaterial binds, for the layer list ls
C11_outputs(ls, p) ==
  CHOOSE r \in
    {<<b.color, b.normal, b.roughness, b.metalness, b.ao>> :
       b \in {buildLayerBlending(ls, p)}} : TRUE

\* C11: after any sequence of mutators the bound outputs are those of the
\* composite of the current layer list, and every call that changed the
\* layer list has set needsUpdate.
C11_OutputsNeverStale ==
  /\ [](<<colorNode, normalNode, roughnessNode, metalnessNode, aoNode>>
          = C11_outputs(layers, pt))
  /\ [][layers' # layers => needsUpdate']_vars

\* a full stack holding an edited layer, whose outputs differ from the
\* defaults
C11_Witness ==
  /\ Len(layers) = MaxLayers
  /\ needsUpdate
  /\ \E i \in 1..Len(layers) :
       /\ layers[i].roughness = Some(R(3, 4))
       /\ layers[i].mask # None /\ layers[i].mask[1].invert
  /\ layers[1] # layers[2]
  /\ colorNode # getDefaultLayer.color

\* the variant holds one layer per base layer, the base layer with the
\* override of its index spread over it
C12_inSync ==
  variant.layers = mergeLayersWithOverrides(layers, variant.overrides)

\* C12: a MaterialVariant stays in sync with its base: addLayer, removeLayer
\* and updateLayer of the base leave variant.layers equal to
\* mergeLayersWithOverrides(base.layers, overrides) when they return, and
\* after any other change of the base stack (insertLayer, moveLayer,
\* swapLayers) a later poll makes them equal again.
C12_VariantFollowsBase ==
  /\ [][(BaseAddLayer \/ BaseRemoveLayer \/ BaseUpdateLayer) => C12_inSync']_vars
  /\ []((~C12_inSync /\ ~variant.disposed)
          => <>(C12_inSync \/ variant.disposed))

\* C13: whenever a mutator of the observable base has changed the layer
\* stack and returned, it has invoked every registered change listener once,
\* and a variant whose listener is registered holds the merge of the new stack.
C13_EveryMutationNotifies ==
  [][layers' # layers =>
       /\ invoked' = listeners'
       /\ reachesVariant' => C12_inSync']_vars

\* C18: once the variant is disposed, a mutation of the base layer stack
\* neither rebuilds nor otherwise modifies it.
C18_DisposedVariantUntouched ==
  [][(variant.disposed /\ layers' # layers) => variant' = variant]_vars

\* the five nodes bound after the step
C14_bound == <<colorNode, normalNode, roughnessNode, metalnessNode, aoNode>>

\* C14: setTransition(target, 0) leaves a stack that composites as the
\* source layers do, and setTransition(target, 1) one that composites as the
\* target layers do.
C14_EndpointsComposite ==
  [][SetTransition =>
       /\ dyn'.transitionFactor = float(0) =>
            C14_bound' = materialOutputs(dyn.sourceLayers, pt)
       /\ dyn'.transitionFactor = float(1) =>
            C14_bound' = materialOutputs(dyn'.targetLayers, pt)]_vars

\* the state completeTransition() leaves, given the state it was called in
C15_snapped ==
  /\ layers' = dyn.targetLayers
  /\ dyn'.sourceLayers = dyn.targetLayers
  /\ dyn'.targetLayers = dyn.targetLayers
  /\ dyn'.transitionFactor = float(0)
  /\ dyn'.transitionState = "idle"
  /\ C14_bound' = materialOutputs(dyn.targetLayers, pt)
  /\ needsUpdate'

\* C15: completeTransition() called during a transition leaves the layers
\* and the source state equal to the target, progress 0 and the material
\* idle; so does the update() call that brings the factor to 1.
C15_CompleteSnapsToTarget ==
  [][(dyn.transitionState = "transitioning"
        /\ (CompleteTransition \/ (Update /\ dyn'.transitionState = "idle")))
       => C15_snapped]_vars

\* a finished transition from one layer to two, on a material that
\* advances on update()
C15_Witness ==
  /\ dyn.transitionState = "idle"
  /\ dyn.autoUpdate
  /\ dyn.sourceLayers = <<LDry, LBlue>>
  /\ layers = <<LDry, LBlue>>
  /\ began = <<>>
  /\ needsUpdate

\* C16: cancelTransition() called during a transition leaves the layer stack
\* the material had when the transition began, edits made before it
\* included, progress 0 and the material idle.
C16_CancelRestoresStack ==
  [][(dyn.transitionState = "transitioning" /\ CancelTransition) =>
       /\ layers' = began
       /\ dyn'.transitionFactor = float(0)
       /\ dyn'.transitionState = "idle"]_vars

\* C20: while a transition is under way a call of update(deltaTime) with a
\* positive deltaTime advances it: the call changes the state, and it either
\* completes the transition (idle, layers = target) or leaves a larger
\* progress; with steps of a fixed size, finitely many calls complete it.
C20_UpdateDrivesTransition ==
  /\ [](dyn.transitionState = "transitioning" => ENABLED <<Update>>_vars)
  /\ [][(Update /\ dyn.transitionState = "transitioning") =>
          \/ dyn'.transitionState = "idle" /\ layers' = dyn.targetLayers
          \/ /\ dyn'.transitionState = "transitioning"
             /\ lessThan(dyn.transitionFactor, dyn'.transitionFactor)]_vars

C19_ConstructionCompletes ==
  [][Construct =>
       /\ ~readsUndefined(fieldsDuringSuper)
       /\ decal'.kind = "DecalLayeredMaterial"
       /\ decal'.decals = <<>>
       /\ decal'.damages = <<>>
       /\ layers' = decal.options.layers
       /\ C14_bound' = materialOutputs(layers', pt)]_vars

(***************************************************************************)
(* C21: completeTransition() on a DynamicLayeredMaterial that has no       *)
(* transition pending (none was started, or the last one was completed or  *)
(* cancelled) leaves the layer stack as it was.                            *)
(***************************************************************************)
C21_IdleCompleteKeepsStack ==
  [][(dyn.transitionState = "idle" /\ CompleteTransition)
       => layers' = layers]_vars

\* the indexes a caller can pass; outside [0, getLayerCount()) for some lists
C22_indexes == -1..MaxLayers

C22_outside(index) == index < 0 \/ index >= Len(layers)

(***************************************************************************)
(* C22: removeLayer, updateLayer, moveLayer and swapLayers called with an  *)
(* index outside [0, getLayerCount()) leave the layer list as it was:      *)
(* nothing is removed, replaced or reordered.                              *)
(***************************************************************************)
C22_OutsideIndexKeepsLayers ==
  \A index \in C22_indexes, other \in C22_indexes :
    C22_outside(index) =>
      /\ layersAfterRemove(layers, index) = layers
      /\ layersAfterMove(layers, index, other) = layers
      /\ layersAfterMove(layers, other, index) = layers
      /\ layersAfterSwap(layers, index, other) = layers
      /\ layersAfterSwap(layers, other, index) = layers
      /\ \A config \in UpdateSet :
           layersAfterUpdate(layers, index, config) = layers

\* the same, of removeLayer's steps: a step that removeLayer(index) takes
\* for an index outside the list keeps the list
C22_RemoveOutsideKeepsLayers ==
  [][\A index \in C22_indexes :
       (C22_outside(index) /\ removeLayer
          /\ layers' = layersAfterRemove(layers, index))
         => layers' = layers]_vars

\* at or beyond the end, and for the guarded operations, the list is kept
C22_BeyondEndKeepsLayers ==
  \A index \in C22_indexes, other \in C22_indexes :
    C22_outside(index) =>
      /\ index >= Len(layers) => layersAfterRemove(layers, index) = layers
      /\ layersAfterMove(layers, index, other) = layers
      /\ layersAfterMove(layers, other, index) = layers
      /\ layersAfterSwap(layers, index, other) = layers
      /\ layersAfterSwap(layers, other, index) = layers
      /\ \A config \in UpdateSet :
           layersAfterUpdate(layers, index, config) = layers

\* the list without the element at the (0-based) index
C23_without(ls, index) ==
  SubSeq(ls, 1, index) \o SubSeq(ls, index + 2, Len(ls))

C23_valid(index) == index >= 0 /\ index < Len(layers)

\* moveLayer: the moved layer is at toIndex, the others keep their order
C23_moves ==
  \A fromIndex \in 0..MaxLayers, toIndex \in 0..MaxLayers :
    (C23_valid(fromIndex) /\ C23_valid(toIndex)) =>
      \E moved \in {layersAfterMove(layers, fromIndex, toIndex)} :
        /\ Len(moved) = Len(layers)
        /\ moved[toIndex + 1] = layers[fromIndex + 1]
        /\ C23_without(moved, toIndex) = C23_without(layers, fromIndex)

\* swapLayers: the two layers change places, every other layer stays
C23_swaps ==
  \A indexA \in 0..MaxLayers, indexB \in 0..MaxLayers :
    (C23_valid(indexA) /\ C23_valid(indexB)) =>
      \E swapped \in {layersAfterSwap(layers, indexA, indexB)} :
        /\ Len(swapped) = Len(layers)
        /\ swapped[indexA + 1] = layers[indexB + 1]
        /\ swapped[indexB + 1] = layers[indexA + 1]
        /\ \A i \in 1..Len(layers) :
             (i # indexA + 1 /\ i # indexB + 1) => swapped[i] = layers[i]

\* insertLayer: the layer is at the index clamped to [0, length], the
\* others keep their order
C23_inserts ==
  \A index \in -1..(MaxLayers + 1), config \in LayerSet :
    \E inserted \in {layersAfterInsert(layers, index, config)},
       at \in {IF index < 0 THEN 0
               ELSE IF index > Len(layers) THEN Len(layers) ELSE index} :
      /\ Len(inserted) = Len(layers) + 1
      /\ inserted[at + 1] = config
      /\ C23_without(inserted, at) = layers

(***************************************************************************)
(* C23: for valid indexes moveLayer(from, to) leaves the moved layer at    *)
(* index to and keeps the order of the others, swapLayers(a, b) exchanges  *)
(* exactly the two layers, and insertLayer(i, c) places c at i clamped to  *)
(* [0, length] keeping the order of the others; no layer is lost or        *)
(* duplicated, and move and swap keep the layer count.                     *)
(***************************************************************************)
C23_Reorders == C23_moves /\ C23_swaps /\ C23_inserts

\* a full stack of three different layers, where moving the bottom layer to
\* the top differs from swapping the two and from leaving the stack alone
C23_Witness ==
  /\ Len(layers) = MaxLayers
  /\ \A i, j \in 1..Len(layers) : i # j => layers[i] # layers[j]
  /\ layersAfterMove(layers, 0, 2) = <<layers[2], layers[3], layers[1]>>
  /\ layersAfterSwap(layers, 0, 2) = <<layers[3], layers[2], layers[1]>>
  /\ \A config \in LayerSet :
       layersAfterInsert(SubSeq(layers, 1, 2), 1, config)
         = <<layers[1], config, layers[2]>>

\* the partial configs updateLayer is given: top-level properties and
\* nested objects, some the layers have and some they lack
C24_roughInverted == [roughness |-> Some(R(3, 4)), mask |-> [invert |-> TRUE]]

\* { colorTint: { g: 0.5 } }
C24_greenHalved == [colorTint |-> [g \in {2} |-> R(1, 2)]]

C24_renamedWorn ==
  [name |-> "worn",
   blendMode |-> [color |-> Some("multiply")],
   edgeWear |-> [enable |-> TRUE, roughness |-> Some(R(1, 4))],
   map |-> [height |-> None]]

\* layer `after` is layer `before` with the partial merged one level deep
C24_merged(before, after, partial) ==
  \A f \in DOMAIN before :
    IF f \notin DOMAIN partial THEN after[f] = before[f]
    ELSE IF f \notin NestedProperties THEN after[f] = partial[f]
    ELSE /\ after[f] # None
         /\ \A g \in DOMAIN after[f][1] :
              IF g \in DOMAIN partial[f] THEN after[f][1][g] = partial[f][g]
              ELSE IF before[f] # None THEN after[f][1][g] = before[f][1][g]
              ELSE after[f][1][g] = emptyNested(f)[g]

C24_updates(partial) ==
  \A index \in 0..(Len(layers) - 1) :
    \E updated \in {layersAfterUpdate(layers, index, partial)} :
      /\ Len(updated) = Len(layers)
      /\ \A i \in 1..Len(layers) : i # index + 1 => updated[i] = layers[i]
      /\ C24_merged(layers[index + 1], updated[index + 1], partial)
      /\ layersAfterUpdate(updated, index, partial) = updated

(***************************************************************************)
(* C24: updateLayer(i, partial) for a valid i changes only layer i: the    *)
(* top-level properties of partial overwrite the old ones, each nested     *)
(* config object of partial is merged one level deep, so that its          *)
(* properties that partial does not mention keep their values, nested      *)
(* objects absent from partial are kept, the other layers and the layer    *)
(* count are unchanged, and applying the partial twice gives what applying *)
(* it once gives.                                                          *)
(***************************************************************************)
C24_UpdateMerges ==
  /\ C24_updates(C24_roughInverted)
  /\ C24_updates(C24_greenHalved)
  /\ C24_updates(C24_renamedWorn)

\* updateLayer has made the rock layer rough and inverted its mask, which
\* still has its slope range, next to a layer it left alone
C24_Witness ==
  /\ Len(layers) >= 2
  /\ \E i, j \in 1..Len(layers) :
       /\ layers[i].name = "rock"
       /\ layers[i].roughness = Some(R(3, 4))
       /\ layers[i].mask # None
       /\ layers[i].mask[1].invert
       /\ layers[i].mask[1].useSlope
       /\ layers[i].mask[1].slopeMin = Some(R(2, 5))
       /\ layers[i].map = LRock.map
       /\ layers[j] = LGrass

\* the entries of `before` other than the one added first are all in
\* `after`, each named one rank lower, and `after` has one entry more than
\* those: the entry added first is gone and one entry has come
C25_oldestGone(before, after) ==
  /\ Len(after) = Len(before)
  /\ \A i \in 1..Len(before) :
       before[i].id > 1 =>
         \E j \in 1..Len(after) :
           after[j] = [before[i] EXCEPT !.id = before[i].id - 1]

C25_EvictsOldestDamage ==
  [][(addDamage /\ Len(decal.damages) >= 1
        /\ Len(decal.damages) >= maxDamagesOr30(decal.config))
       => C25_oldestGone(decal.damages, decal'.damages)]_vars

\* the half about the decals, for lists in which every decal has a lifetime
\* and the decals were added at instants that differ
C25_EvictsOldestTimed ==
  [][(addDecal /\ Len(decal.decals) >= 1
        /\ Len(decal.decals) >= decal.config.maxDecals
        /\ \A i \in 1..Len(decal.decals) :
             /\ decal.decals[i].fadeStartTime # None
             /\ \A j \in 1..Len(decal.decals) :
                  i # j => decal.decals[i].fadeStartTime
                             # decal.decals[j].fadeStartTime)
       => C25_oldestGone(decal.decals, decal'.decals)]_vars

\* an entry, whatever it is named
C26_unnamed(entry) == [entry EXCEPT !.id = 0]

\* how many entries of the list satisfy the test, which is given as the set
\* of their indexes
C26_kept(before, after, indexes) ==
  /\ \A i \in indexes :
       \E j \in 1..Len(after) : C26_unnamed(after[j]) = C26_unnamed(before[i])
  /\ \A i, k \in indexes :
       (i < k) =>
         \E j, l \in 1..Len(after) :
           /\ j < l
           /\ C26_unnamed(after[j]) = C26_unnamed(before[i])
           /\ C26_unnamed(after[l]) = C26_unnamed(before[k])

\* the decal has a positive lifetime, and the seconds since it was added
\* have reached it
C26_outlives(d) ==
  /\ d.lifetime # None
  /\ lessThan(float(0), d.lifetime[1])
  /\ d.fadeStartTime # None
  /\ lessEq(mul(d.lifetime[1], float(1000)),
            float(clock - d.fadeStartTime[1]))

\* what one update(deltaTime) does: a decal goes only when its lifetime has
\* run out, and then it goes; a decal without a lifetime stays as it is; a
\* damage that does not heal stays as it is; a damage that heals is either
\* gone or weaker than before, and in (0, 1]
C26_updateStep ==
  /\ C26_kept(decal.decals, decal'.decals,
              {i \in 1..Len(decal.decals) :
                 ~C26_outlives(decal.decals[i])})
  /\ Len(decal'.decals)
       = Cardinality({i \in 1..Len(decal.decals) :
                        ~C26_outlives(decal.decals[i])})
  /\ \A i \in 1..Len(decal.decals) :
       decal.decals[i].lifetime = None => ~C26_outlives(decal.decals[i])
  /\ C26_kept(decal.damages, decal'.damages,
              {i \in 1..Len(decal.damages) : ~heals(decal.damages[i])})
  /\ \A i \in 1..Len(decal.damages) :
       decal.damages[i].permanent => ~heals(decal.damages[i])
  /\ Len(decal'.damages) <= Len(decal.damages)
  /\ \A j \in 1..Len(decal'.damages) :
       heals(decal'.damages[j]) =>
         /\ lessThan(float(0), decal'.damages[j].intensity)
         /\ lessEq(decal'.damages[j].intensity, float(1))
         /\ \E i \in 1..Len(decal.damages) :
              /\ heals(decal.damages[i])
              /\ lessThan(decal'.damages[j].intensity,
                          decal.damages[i].intensity)
              /\ [decal'.damages[j] EXCEPT !.id = 0, !.intensity = float(0)]
                   = [decal.damages[i] EXCEPT !.id = 0,
                                              !.intensity = float(0)]

\* a decal whose lifetime has run out is present
C26_outlived ==
  /\ decal.kind = "DecalLayeredMaterial"
  /\ \E i \in 1..Len(decal.decals) : C26_outlives(decal.decals[i])

(***************************************************************************)
(* C26: under repeated update(deltaTime) calls with positive deltaTime,    *)
(* while time passes, a decal with a lifetime is removed once the time     *)
(* elapsed since it was added reaches the lifetime; each update weakens    *)
(* every damage that heals, whose intensity stays within [0, 1], and       *)
(* removes it when the intensity reaches 0; a decal without a lifetime and *)
(* a permanent damage are neither removed nor altered by update.           *)
(***************************************************************************)
C26_UpdateAges ==
  /\ [][Decal_update => C26_updateStep]_vars
  /\ (C26_outlived ~> ~C26_outlived)

\* an update, at the later instant, has left a sticker and a dent healed to
\* one half, and no splash
C26_Witness ==
  /\ decal.kind = "DecalLayeredMaterial"
  /\ clock = 2000
  /\ decal.lastUpdateTime = 2000
  /\ Len(decal.decals) = 1
  /\ decal.decals[1].lifetime = None
  /\ Len(decal.damages) = 1
  /\ decal.damages[1].intensity = R(1, 2)
  /\ ~decal.damages[1].permanent

\* the decals are in order of falling priority, decals of one priority in
\* the order they were added
C27_sorted ==
  decal.kind = "DecalLayeredMaterial" =>
    \A i, j \in 1..Len(decal.decals) :
      (i < j) =>
        \/ decal.decals[i].priority > decal.decals[j].priority
        \/ /\ decal.decals[i].priority = decal.decals[j].priority
           /\ decal.decals[i].id < decal.decals[j].id

\* the damages are in the order they were added
C27_damagesInOrder ==
  decal.kind = "DecalLayeredMaterial" =>
    \A i, j \in 1..Len(decal.damages) :
      (i < j) => decal.damages[i].id < decal.damages[j].id

\* the composite of the layers, then of the damages, then of the decals, in
\* the order of the lists given
C27_composite(damages, decals) ==
  Decal_buildLayerBlending(layers, damages, decals,
                           decal.config.useWorldSpace,
                           [pt EXCEPT !.now = clock])

\* the outputs are bound to the composite
C27_bound(composite) ==
  /\ colorNode = composite.color
  /\ normalNode = composite.normal
  /\ roughnessNode = composite.roughness
  /\ metalnessNode = composite.metalness
  /\ aoNode = composite.ao

C28_between(x, a, b) ==
  \/ lessEq(a, x) /\ lessEq(x, b)
  \/ lessEq(b, x) /\ lessEq(x, a)

\* source + (target - source) * progress
C28_mix(source, target, progress) ==
  add(source, mul(sub(target, source), progress))

\* the uniforms, given the material after setTransitionFast and the source
\* layers it started from: each is the source value moved towards the target
\* value by the progress, and lies between the two
C28_interpolated(d, sourceLayers) ==
  /\ lessEq(float(0), d.transitionFactor)
  /\ lessEq(d.transitionFactor, float(1))
  /\ d.uniforms.roughness
       = C28_mix(roughnessOrHalf(sourceLayers),
                 roughnessOrHalf(d.targetLayers), d.transitionFactor)
  /\ d.uniforms.metalness
       = C28_mix(metalnessOrZero(sourceLayers),
                 metalnessOrZero(d.targetLayers), d.transitionFactor)
  /\ \A c \in 1..3 :
       /\ d.uniforms.colorTint[c]
            = C28_mix(colorTintOrOne(sourceLayers)[c],
                      colorTintOrOne(d.targetLayers)[c], d.transitionFactor)
       /\ C28_between(d.uniforms.colorTint[c],
                      colorTintOrOne(sourceLayers)[c],
                      colorTintOrOne(d.targetLayers)[c])
  /\ C28_between(d.uniforms.roughness, roughnessOrHalf(sourceLayers),
                 roughnessOrHalf(d.targetLayers))
  /\ C28_between(d.uniforms.metalness, metalnessOrZero(sourceLayers),
                 metalnessOrZero(d.targetLayers))

(***************************************************************************)
(* C28: after setTransitionFast(target, factor) the progress is the factor *)
(* clamped to [0, 1] and each uniform (roughness, metalness, tint r, g, b) *)
(* is source + (target - source) * progress, from the first layers of the  *)
(* source and target stacks with defaults 0.5, 0 and 1, so every uniform   *)
(* lies between its source and its target value; no rebuild is triggered.  *)
(***************************************************************************)
C28_FastTransitionInterpolates ==
  [][setTransitionFast =>
       /\ \E factor \in FastFactors :
            dyn'.transitionFactor = clamp(factor, float(0), float(1))
       /\ C28_interpolated(dyn', dyn.sourceLayers)
       /\ layers' = layers
       /\ needsUpdate' = needsUpdate]_vars

\* what does hold: the progress is in [0, 1], nothing is rebuilt, and the
\* uniforms are the mix at one of the factors given, clamped or not
C28_FastTransitionMixesAtFactor ==
  [][setTransitionFast =>
       /\ \E factor \in FastFactors :
            /\ dyn'.transitionFactor = clamp(factor, float(0), float(1))
            /\ dyn'.uniforms.roughness
                 = C28_mix(roughnessOrHalf(dyn.sourceLayers),
                           roughnessOrHalf(dyn'.targetLayers), factor)
       /\ layers' = layers
       /\ needsUpdate' = needsUpdate]_vars

(***************************************************************************)
(* C29: in a UniformDynamicMaterial the roughness and metalness outputs    *)
(* are the roughness and metalness uniforms, and the color output is the   *)
(* composite color multiplied once by the tint uniforms, after any         *)
(* sequence of calls, the inherited addLayer, removeLayer, insertLayer,    *)
(* moveLayer, swapLayers and updateLayer included: setTransitionFast       *)
(* always changes what is rendered.                                        *)
(***************************************************************************)
C29_OutputsStayBound ==
  dyn.kind = "UniformDynamicMaterial" =>
    /\ dyn.roughnessBound
    /\ roughnessNode = dyn.uniforms.roughness
    /\ dyn.metalnessBound
    /\ metalnessNode = dyn.uniforms.metalness
    /\ dyn.tinted # None
    /\ colorNode = vmul(dyn.tinted[1], dyn.uniforms.colorTint)

\* what does hold: as long as no mutator was called
C29_BoundUntilMutated ==
  (dyn.kind = "UniformDynamicMaterial" /\ layers \in UniformStacks
     /\ dyn.roughnessBound) =>
    /\ roughnessNode = dyn.uniforms.roughness
    /\ dyn.metalnessBound
    /\ metalnessNode = dyn.uniforms.metalness
    /\ dyn.tinted = Some(buildLayerBlending(layers, pt).color)
    /\ colorNode = vmul(dyn.tinted[1], dyn.uniforms.colorTint)

\* the overrides of a variant: the elements of the array it refers to
C30_overridesOf(v, arrays) == arrays[v.overrides]

(***************************************************************************)
(* C30: the overrides of a variant change only through its own             *)
(* setOverrides and updateOverride. updateOverride on one variant changes  *)
(* neither an array a caller passed to the constructor or to setOverrides, *)
(* nor the overrides of another variant that was given the same array, nor *)
(* the layers that variant merges afterwards; an array that getOverrides   *)
(* returned can be written without effect on the variant.                  *)
(***************************************************************************)
C30_OverridesAreOwn ==
  /\ [][/\ UpdateOverride =>
             /\ variant'.arrays.presets = variant.arrays.presets
             /\ variant'.arrays.other = variant.arrays.other
        /\ C30_overridesOf(variant'.second, variant'.arrays)
             = C30_overridesOf(variant.second, variant.arrays)
        /\ EditReturned => variant'.first = variant.first]_vars
  /\ [](variant.kind = "MaterialVariants" =>
          variant.second.layers
            = mergeLayersWithOverrides(layers, PresetOverrides))

\* what does hold: writing an array that getOverrides returned changes
\* neither variant nor an array a caller passed, and setOverrides writes no
\* array
C30_ReturnedArrayIsACopy ==
  [][(EditReturned \/ SharedSetOverrides) =>
       /\ variant'.arrays.presets = variant.arrays.presets
       /\ variant'.arrays.other = variant.arrays.other
       /\ variant'.second = variant.second
       /\ EditReturned => variant'.first = variant.first]_vars
====
